---------------------------- MODULE Spec2Model ----------------------------
(***************************************************************************)
(* Model of the portfolio risk-analytics engine                            *)
(* (src/agents/portfolio_risk/portfolio.py, tools.py) and of the shared    *)
(* economic-analysis context (src/agents/economic_swarm/models.py).        *)
(*                                                                         *)
(* Numbers.  The Python code computes with floats; the model computes with *)
(* exact integers in fixed units:                                          *)
(*   - share counts and prices: whole units (value = shares * price);      *)
(*   - a percentage rounded by round(x, 2): an integer number of           *)
(*     hundredths of a percent (25.0 % is 2500);                           *)
(*   - a money amount rounded by round(x, 2): an integer number of         *)
(*     hundredths (0.03 is 3);                                             *)
(*   - confidence: thousandths (0.95 is 950); volatility: ten-thousandths  *)
(*     (0.02 is 200); z-scores: hundredths (1.65 is 165).                  *)
(* round(x, 2) is modelled by Round (round half to even on the exact       *)
(* quotient), which is what Python's round does on every value that is not *)
(* an inexactly represented tie.                                           *)
(*                                                                         *)
(* Timestamps (datetime.now()) are not modelled.                           *)
(***************************************************************************)
EXTENDS Integers, Sequences, FiniteSets, TLC

VARIABLES
    portfolios,          \* Portfolio instances: id -> [positions, risk_metrics]
    op,                  \* the last call made: [name, self, args]
    ret,                 \* what the last call returned
    indicators,          \* EconomicContext.indicators (dict, insertion order)
    company_exposures,   \* EconomicContext.company_exposures (dict)
    risk_assessments,    \* EconomicContext.risk_assessments (list)
    analysis_history,    \* EconomicContext.analysis_history (list)
    agent,               \* the PortfolioRiskAgent, or None before it is built
    provider,            \* the EconomicDataProvider, or None before it is built
    swarm                \* the EconomicSwarm, or None before it is built

portfolioVars == <<portfolios>>
contextVars == <<indicators, company_exposures, risk_assessments, analysis_history>>
vars == <<portfolios, op, ret, indicators, company_exposures, risk_assessments,
          analysis_history, agent, provider, swarm>>

(***************************************************************************)
(* Bounds and input sets                                                   *)
(***************************************************************************)
MaxPositions == 3
MaxPositionsEach == 2
MaxVarPositions == 2
MaxEvents == 4
MaxRiskPositions == 5
MaxQueryEvents == 3
MaxFactors == 3
MaxSystemicEvents == 4
MaxIdempotenceEvents == 2
MaxProviderEvents == 3
MaxSwarmEvents == 2

PortfolioIds == {"p1", "p2"}
Symbols == {"AAPL", "MSFT"}
MoreSymbols == {"AAPL", "MSFT", "GOOGL"}
ShareCounts == {-1, 1, 2}
BuyPrices == {0, 2}
CurrentPrices == {0, 1}
Confidences == {900, 950, 990, 995}
Volatilities == {-100, 100, 200}
IndicatorNames == {"GDP", "VIXCLS"}
Tickers == {"AAPL", "JPM"}

(***************************************************************************)
(* Generic helpers                                                         *)
(***************************************************************************)
None == [kind |-> "None"]

Abs(x) == IF x < 0 THEN -x ELSE x

\* round(num/den) to the nearest integer, ties to the even integer
Round(num, den) ==
    LET n == IF den < 0 THEN -num ELSE num
        d == Abs(den)
        q == n \div d
        r == n - q * d
    IN  IF 2 * r < d THEN q
        ELSE IF 2 * r > d THEN q + 1
        ELSE IF q % 2 = 0 THEN q ELSE q + 1

RECURSIVE Sum(_)
Sum(s) == IF s = <<>> THEN 0 ELSE Head(s) + Sum(Tail(s))

\* A Python dict: a sequence of [key, val] entries in insertion order.
DictKeys(d) == {d[i].key : i \in 1..Len(d)}

DictGet(d, k) == d[CHOOSE i \in 1..Len(d) : d[i].key = k].val

\* d[k] = v: an existing key keeps its place, a new key goes last
DictSet(d, k, v) ==
    IF k \in DictKeys(d)
    THEN [i \in 1..Len(d) |-> IF d[i].key = k THEN [key |-> k, val |-> v] ELSE d[i]]
    ELSE Append(d, [key |-> k, val |-> v])

DictValues(d) == [i \in 1..Len(d) |-> d[i].val]

(***************************************************************************)
(* Position                                                                *)
(***************************************************************************)
Position(symbol, shares, buy_price, current_price) ==
    [symbol |-> symbol, shares |-> shares, buy_price |-> buy_price,
     current_price |-> current_price]

value(p) == p.shares * p.current_price

cost_basis(p) == p.shares * p.buy_price

pnl(p) == value(p) - cost_basis(p)

\* round(return_pct, 2), in hundredths of a percent
return_pct(p) ==
    IF p.buy_price = 0 THEN 0
    ELSE Round((p.current_price - p.buy_price) * 10000, p.buy_price)

\* Position.to_dict: value and pnl rounded to two decimals, in hundredths
Position_to_dict(p) ==
    [symbol |-> p.symbol, shares |-> p.shares, buy_price |-> p.buy_price,
     current_price |-> p.current_price, value |-> value(p) * 100,
     pnl |-> pnl(p) * 100, return_pct |-> return_pct(p)]

(***************************************************************************)
(* Portfolio                                                               *)
(***************************************************************************)
Portfolio == [positions |-> <<>>, risk_metrics |-> None]

total_value(ps) == Sum([i \in 1..Len(ps) |-> value(ps[i])])

total_cost_basis(ps) == Sum([i \in 1..Len(ps) |-> cost_basis(ps[i])])

\* mutant: the cost of a position taken as its buy price, the share count forgotten
total_pnl_price_only(ps) == Sum([i \in 1..Len(ps) |-> value(ps[i]) - ps[i].buy_price])

total_pnl(ps) == Sum([i \in 1..Len(ps) |-> pnl(ps[i])])

\* mutant: only the first matching position is removed (list.remove)
remove_position_first_only(ps, symbol) ==
    IF \E i \in 1..Len(ps) : ps[i].symbol = symbol
    THEN LET k == CHOOSE i \in 1..Len(ps) :
                     /\ ps[i].symbol = symbol
                     /\ \A j \in 1..(i - 1) : ps[j].symbol # symbol
         IN  SubSeq(ps, 1, k - 1) \o SubSeq(ps, k + 1, Len(ps))
    ELSE ps

\* [p for p in self.positions if p.symbol != symbol]
remove_position_list(ps, symbol) ==
    LET Keep(p) == p.symbol # symbol IN SelectSeq(ps, Keep)

\* mutant: the last position with the symbol is returned
get_position_last(ps, symbol) ==
    IF \E i \in 1..Len(ps) : ps[i].symbol = symbol
    THEN LET i == CHOOSE k \in 1..Len(ps) :
                     /\ ps[k].symbol = symbol
                     /\ \A j \in (k + 1)..Len(ps) : ps[j].symbol # symbol
         IN  [kind |-> "Position", val |-> ps[i]]
    ELSE None

\* the first position with the symbol, or None
get_position_result(ps, symbol) ==
    IF \E i \in 1..Len(ps) : ps[i].symbol = symbol
    THEN LET i == CHOOSE k \in 1..Len(ps) :
                     /\ ps[k].symbol = symbol
                     /\ \A j \in 1..(k - 1) : ps[j].symbol # symbol
         IN  [kind |-> "Position", val |-> ps[i]]
    ELSE None

\* max(self.positions, key=lambda p: p.value): the first position of maximal value
max_pos(ps) ==
    ps[CHOOSE k \in 1..Len(ps) :
          /\ \A j \in 1..Len(ps) : value(ps[j]) <= value(ps[k])
          /\ \A j \in 1..(k - 1) : value(ps[j]) < value(ps[k])]

\* round(value / total * 100, 2), in hundredths of a percent
pct(v, total) == Round(v * 10000, total)

\* {p.symbol: round(p.value / total * 100, 2) for p in self.positions}
RECURSIVE concentrations(_, _, _)
concentrations(ps, total, n) ==
    IF n = 0 THEN <<>>
    ELSE DictSet(concentrations(ps, total, n - 1), ps[n].symbol,
                 pct(value(ps[n]), total))

concentration(ps) ==
    IF ps = <<>> \/ total_value(ps) = 0
    THEN [max |-> 0, symbol |-> "None", value |-> 0, positions |-> <<>>]
    ELSE [max |-> pct(value(max_pos(ps)), total_value(ps)),
          symbol |-> max_pos(ps).symbol,
          value |-> value(max_pos(ps)) * 100,
          positions |-> concentrations(ps, total_value(ps), Len(ps))]

\* mutant: the score is not clamped at 0
diversification_score_unclamped(ps) ==
    IF Len(ps) <= 1 THEN 0
    ELSE LET n == Len(ps)
             max_concentration == concentration(ps).max
             num == 10000 * n - 2 * Abs(max_concentration * n - 10000)
         IN  Round(num, n)

\* score = max(0, 100 - abs(max_concentration - 100/n) * 2), rounded to 2
\* decimals; in hundredths: (10000 n - 2 |max n - 10000|) / n
diversification_score(ps) ==
    IF Len(ps) <= 1 THEN 0
    ELSE LET n == Len(ps)
             max_concentration == concentration(ps).max
             num == 10000 * n - 2 * Abs(max_concentration * n - 10000)
         IN  IF num <= 0 THEN 0 ELSE Round(num, n)

(***************************************************************************)
(* Portfolio operations                                                    *)
(***************************************************************************)
Call(name, self, args) == [name |-> name, self |-> self, args |-> args]

\* mutant: a position of a symbol already held is merged into the held one
add_position_merging(self, symbol, shares, buy_price, current_price) ==
    LET position == Position(symbol, shares, buy_price, current_price)
        ps == portfolios[self].positions
        merged == [i \in 1..Len(ps) |->
                      IF ps[i].symbol = symbol
                      THEN [ps[i] EXCEPT !.shares = @ + shares] ELSE ps[i]]
    IN  /\ portfolios' = [portfolios EXCEPT ![self] =
               [positions |-> IF \E i \in 1..Len(ps) : ps[i].symbol = symbol
                              THEN merged ELSE Append(ps, position),
                risk_metrics |-> None]]
        /\ op' = Call("add_position", self,
                      <<symbol, shares, buy_price, current_price>>)
        /\ ret' = [kind |-> "Position", val |-> position]
        /\ UNCHANGED <<contextVars, agent, provider, swarm>>

\* mutant: the metrics slot is filled again as soon as the position is added
add_position_caching(self, symbol, shares, buy_price, current_price) ==
    LET position == Position(symbol, shares, buy_price, current_price)
    IN  /\ portfolios' = [portfolios EXCEPT ![self] =
               [positions |-> Append(@.positions, position),
                risk_metrics |-> [total_value |-> total_value(@.positions)]]]
        /\ op' = Call("add_position", self,
                      <<symbol, shares, buy_price, current_price>>)
        /\ ret' = [kind |-> "Position", val |-> position]
        /\ UNCHANGED <<contextVars, agent, provider, swarm>>

add_position(self, symbol, shares, buy_price, current_price) ==
    LET position == Position(symbol, shares, buy_price, current_price)
    IN  /\ portfolios' = [portfolios EXCEPT ![self] =
               [positions |-> Append(@.positions, position),
                risk_metrics |-> None]]
        /\ op' = Call("add_position", self,
                      <<symbol, shares, buy_price, current_price>>)
        /\ ret' = [kind |-> "Position", val |-> position]
        /\ UNCHANGED <<contextVars, agent, provider, swarm>>

remove_position(self, symbol) ==
    LET initial_count == Len(portfolios[self].positions)
        remaining == remove_position_list(portfolios[self].positions, symbol)
    IN  /\ portfolios' = [portfolios EXCEPT ![self] =
               [positions |-> remaining, risk_metrics |-> None]]
        /\ op' = Call("remove_position", self, <<symbol>>)
        /\ ret' = [kind |-> "bool", val |-> (Len(remaining) < initial_count)]
        /\ UNCHANGED <<contextVars, agent, provider, swarm>>

get_position(self, symbol) ==
    /\ op' = Call("get_position", self, <<symbol>>)
    /\ ret' = get_position_result(portfolios[self].positions, symbol)
    /\ UNCHANGED <<agent, provider, swarm, portfolios, indicators, company_exposures, risk_assessments,
                   analysis_history>>

call_concentration(self) ==
    /\ op' = Call("concentration", self, <<>>)
    /\ ret' = [kind |-> "concentration",
               val |-> concentration(portfolios[self].positions)]
    /\ UNCHANGED <<agent, provider, swarm, portfolios, indicators, company_exposures, risk_assessments,
                   analysis_history>>

call_diversification_score(self) ==
    /\ op' = Call("diversification_score", self, <<>>)
    /\ ret' = [kind |-> "score",
               val |-> diversification_score(portfolios[self].positions)]
    /\ UNCHANGED <<agent, provider, swarm, portfolios, indicators, company_exposures, risk_assessments,
                   analysis_history>>

\* round(total_return_pct, 2), in hundredths of a percent
total_return_pct(ps) ==
    IF total_cost_basis(ps) = 0 THEN 0
    ELSE Round((total_value(ps) - total_cost_basis(ps)) * 10000, total_cost_basis(ps))

\* Portfolio.summary: the money totals rounded to two decimals, in hundredths
Portfolio_summary(ps) ==
    [total_value |-> total_value(ps) * 100,
     total_cost_basis |-> total_cost_basis(ps) * 100,
     total_pnl |-> total_pnl(ps) * 100,
     total_return_pct |-> total_return_pct(ps),
     position_count |-> Len(ps),
     diversification_score |-> diversification_score(ps),
     positions |-> [i \in 1..Len(ps) |-> Position_to_dict(ps[i])]]

call_Portfolio_summary(self) ==
    /\ op' = Call("summary", self, <<>>)
    /\ ret' = [kind |-> "summary", val |-> Portfolio_summary(portfolios[self].positions)]
    /\ UNCHANGED <<agent, provider, swarm, portfolios, indicators, company_exposures, risk_assessments,
                   analysis_history>>

(***************************************************************************)
(* RiskCalculator.calculate_var                                            *)
(***************************************************************************)
\* mutant: the two table entries exchanged
z_score_swapped(confidence) ==
    IF confidence = 950 THEN 233
    ELSE IF confidence = 990 THEN 165
    ELSE 165

\* z_scores.get(confidence, 1.65) with z_scores = {0.95: 1.65, 0.99: 2.33}
z_score(confidence) ==
    IF confidence = 950 THEN 165
    ELSE IF confidence = 990 THEN 233
    ELSE 165

\* mutant: only the empty portfolio is refused, not every zero total value
calculate_var_empty_only(ps, confidence, volatility) ==
    IF ps = <<>>
    THEN [kind |-> "error", error |-> "Empty portfolio"]
    ELSE [kind |-> "var",
          portfolio_value |-> total_value(ps) * 100,
          var |-> Round(total_value(ps) * volatility * z_score(confidence), 10000),
          confidence |-> Round(confidence, 10),
          volatility |-> Round(volatility, 10)]

\* mutant: a confidence outside the table is refused with an error record
calculate_var_strict(ps, confidence, volatility) ==
    IF total_value(ps) = 0
    THEN [kind |-> "error", error |-> "Empty portfolio"]
    ELSE IF confidence \notin {950, 990}
    THEN [kind |-> "error", error |-> "Unsupported confidence"]
    ELSE [kind |-> "var",
          portfolio_value |-> total_value(ps) * 100,
          var |-> Round(total_value(ps) * volatility * z_score(confidence), 10000),
          confidence |-> Round(confidence, 10),
          volatility |-> Round(volatility, 10)]

\* the record returned: portfolio_value and var in hundredths, confidence in
\* whole percent ("95%"), volatility in tenths of a percent ("2.0%")
calculate_var_result(ps, confidence, volatility) ==
    IF total_value(ps) = 0
    THEN [kind |-> "error", error |-> "Empty portfolio"]
    ELSE [kind |-> "var",
          portfolio_value |-> total_value(ps) * 100,
          var |-> Round(total_value(ps) * volatility * z_score(confidence), 10000),
          confidence |-> Round(confidence, 10),
          volatility |-> Round(volatility, 10)]

calculate_var(self, confidence, volatility) ==
    /\ op' = Call("calculate_var", self, <<confidence, volatility>>)
    /\ ret' = calculate_var_result(portfolios[self].positions, confidence, volatility)
    /\ UNCHANGED <<agent, provider, swarm, portfolios, indicators, company_exposures, risk_assessments,
                   analysis_history>>

(***************************************************************************)
(* RiskCalculator.assess_concentration_risk.  The portfolio RiskLevel enum *)
(* has the members LOW, MODERATE, HIGH, CRITICAL, each its own value.      *)
(* max_conc is concentration()["max"], in hundredths of a percent; the     *)
(* texts formatted with .1f carry it in tenths of a percent.               *)
(***************************************************************************)
PortfolioRiskLevel == {"LOW", "MODERATE", "HIGH", "CRITICAL"}

\* mutant: the thresholds are inclusive
concentration_risk_level_inclusive(max_conc) ==
    IF max_conc >= 4000 THEN "CRITICAL"
    ELSE IF max_conc >= 3000 THEN "HIGH"
    ELSE IF max_conc >= 2000 THEN "MODERATE"
    ELSE "LOW"

concentration_risk_level(max_conc) ==
    IF max_conc > 4000 THEN "CRITICAL"
    ELSE IF max_conc > 3000 THEN "HIGH"
    ELSE IF max_conc > 2000 THEN "MODERATE"
    ELSE "LOW"

concentration_recommendations(risk_level, symbol, max_conc) ==
    IF risk_level \in {"HIGH", "CRITICAL"}
    THEN << <<"Reduce position - too concentrated", symbol, Round(max_conc, 10)>>,
            <<"Add more diversified holdings">>,
            <<"Consider position size limits (e.g., max 20% per position)">> >>
    ELSE IF risk_level = "MODERATE"
    THEN << <<"Monitor concentration levels">>,
            <<"Consider rebalancing quarterly">> >>
    ELSE << <<"Portfolio well diversified">>,
            <<"Maintain current allocation strategy">> >>

assess_concentration_risk_result(ps) ==
    LET conc == concentration(ps)
        max_conc == conc.max
        risk_level == concentration_risk_level(max_conc)
    IN  [kind |-> "concentration_risk",
         max_concentration |-> Round(max_conc, 10),
         largest_position |-> conc.symbol,
         risk_level |-> risk_level,
         diversification_score |-> diversification_score(ps),
         position_weights |-> conc.positions,
         recommendations |->
             concentration_recommendations(risk_level, conc.symbol, max_conc)]

assess_concentration_risk(self) ==
    /\ op' = Call("assess_concentration_risk", self, <<>>)
    /\ ret' = assess_concentration_risk_result(portfolios[self].positions)
    /\ UNCHANGED <<agent, provider, swarm, portfolios, indicators, company_exposures, risk_assessments,
                   analysis_history>>

(***************************************************************************)
(* RiskCalculator.stress_test.  A factor is in hundredths (0.7 is 70); the *)
(* values rounded to two decimals are in hundredths, so a value times a    *)
(* factor is already the rounded stressed value; loss_percentage, written  *)
(* with .1f, is in tenths of a percent.                                    *)
(***************************************************************************)
scenarios ==
    << [key |-> "market_crash",
        val |-> [name |-> "Market Crash (-30%)", factor |-> 70,
                 description |-> "Severe market downturn"]],
       [key |-> "recession",
        val |-> [name |-> "Recession (-15%)", factor |-> 85,
                 description |-> "Economic recession"]],
       [key |-> "inflation",
        val |-> [name |-> "High Inflation (-10%)", factor |-> 90,
                 description |-> "High inflation environment"]] >>

\* mutant: an unknown scenario name falls back to the recession entry
scenarios_get_recession(scenario) ==
    IF scenario \in DictKeys(scenarios)
    THEN DictGet(scenarios, scenario)
    ELSE DictGet(scenarios, "recession")

\* scenarios.get(scenario, scenarios["market_crash"])
scenarios_get(scenario) ==
    IF scenario \in DictKeys(scenarios)
    THEN DictGet(scenarios, scenario)
    ELSE DictGet(scenarios, "market_crash")

stress_test_result(ps, scenario) ==
    LET test == scenarios_get(scenario)
        current_value == total_value(ps)
        stressed_value == current_value * test.factor
        loss == current_value * 100 - stressed_value
        loss_pct == (100 - test.factor) * 10
        impact(pos) ==
            [symbol |-> pos.symbol,
             current_value |-> value(pos) * 100,
             stressed_value |-> value(pos) * test.factor,
             loss |-> value(pos) * 100 - value(pos) * test.factor]
    IN  [kind |-> "stress_test",
         scenario |-> test.name,
         description |-> test.description,
         current_portfolio_value |-> current_value * 100,
         stressed_portfolio_value |-> stressed_value,
         total_loss |-> loss,
         loss_percentage |-> loss_pct,
         position_impacts |-> [i \in 1..Len(ps) |-> impact(ps[i])]]

stress_test(self, scenario) ==
    /\ op' = Call("stress_test", self, <<scenario>>)
    /\ ret' = stress_test_result(portfolios[self].positions, scenario)
    /\ UNCHANGED <<agent, provider, swarm, portfolios, indicators, company_exposures, risk_assessments,
                   analysis_history>>

(***************************************************************************)
(* Python floats.  A float is m * 2^e with a significand of MantissaBits   *)
(* bits (2^(MantissaBits-1) <= |m| < 2^MantissaBits) or zero; every        *)
(* operation returns the exact result rounded to the nearest float, ties   *)
(* to the even significand, as IEEE 754 arithmetic does.  CPython's float  *)
(* carries 53 bits; the model carries MantissaBits.                        *)
(***************************************************************************)
MantissaBits == 11

RECURSIVE Pow2(_)
Pow2(k) == IF k = 0 THEN 1 ELSE 2 * Pow2(k - 1)

RECURSIVE BitLength(_)
BitLength(n) == IF n = 0 THEN 0 ELSE 1 + BitLength(n \div 2)

FloatZero == [m |-> 0, e |-> 0]

\* sign * n * 2^e, n >= 0, rounded to a float; sticky says that the exact
\* value lies strictly above n * 2^e (n then has more than MantissaBits bits)
float_round(sign, n, e, sticky) ==
    IF n = 0 THEN FloatZero
    ELSE LET L == BitLength(n)
         IN  IF L <= MantissaBits
             THEN [m |-> sign * n * Pow2(MantissaBits - L),
                   e |-> e - (MantissaBits - L)]
             ELSE LET k == L - MantissaBits
                      q == n \div Pow2(k)
                      r == n % Pow2(k)
                      half == Pow2(k - 1)
                      up == r > half \/ (r = half /\ (sticky \/ q % 2 = 1))
                      m == IF up THEN q + 1 ELSE q
                  IN  IF m = Pow2(MantissaBits)
                      THEN [m |-> sign * Pow2(MantissaBits - 1), e |-> e + k + 1]
                      ELSE [m |-> sign * m, e |-> e + k]

\* float(i) of a Python int
float_of_int(i) == float_round(IF i < 0 THEN -1 ELSE 1, Abs(i), 0, FALSE)

float_neg(a) == [m |-> -a.m, e |-> a.e]

\* a + b
float_add(a, b) ==
    IF a.m = 0 THEN b
    ELSE IF b.m = 0 THEN a
    ELSE LET hi == IF a.e >= b.e THEN a ELSE b
             lo == IF a.e >= b.e THEN b ELSE a
             d == hi.e - lo.e
         IN  IF d > MantissaBits + 1 THEN hi
             ELSE LET n == hi.m * Pow2(d) + lo.m
                  IN  float_round(IF n < 0 THEN -1 ELSE 1, Abs(n), lo.e, FALSE)

\* a - b
float_sub(a, b) == float_add(a, float_neg(b))

\* a * b
float_mul(a, b) ==
    float_round(IF a.m * b.m < 0 THEN -1 ELSE 1, Abs(a.m * b.m), a.e + b.e, FALSE)

\* a / b, b not zero
float_div(a, b) ==
    IF a.m = 0 THEN FloatZero
    ELSE LET n == Abs(a.m) * Pow2(MantissaBits + 1)
             q == n \div Abs(b.m)
             r == n % Abs(b.m)
         IN  float_round(IF (a.m < 0) # (b.m < 0) THEN -1 ELSE 1, q,
                         a.e - b.e - (MantissaBits + 1), r # 0)

\* the largest s in lo..hi with s * s <= n
RECURSIVE isqrt(_, _, _)
isqrt(n, lo, hi) ==
    IF lo = hi THEN lo
    ELSE LET mid == (lo + hi + 1) \div 2
         IN  IF mid * mid <= n THEN isqrt(n, mid, hi) ELSE isqrt(n, lo, mid - 1)

\* math.sqrt(a), a >= 0
float_sqrt(a) ==
    IF a.m = 0 THEN FloatZero
    ELSE LET k == IF (a.e - (MantissaBits + 1)) % 2 = 0
                  THEN MantissaBits + 1 ELSE MantissaBits + 2
             n == a.m * Pow2(k)
             s == isqrt(n, 0, Pow2(MantissaBits + 2))
         IN  float_round(1, s, (a.e - k) \div 2, s * s # n)

\* a > b
float_gt(a, b) == float_sub(a, b).m > 0

\* sum(s) of a list of floats: CPython 3.11 adds from the left, starting at 0
RECURSIVE float_sum(_)
float_sum(s) ==
    IF s = <<>> THEN FloatZero
    ELSE float_add(float_sum(SubSeq(s, 1, Len(s) - 1)), s[Len(s)])

\* round(a, 2) and f"{a:.2f}": the decimal with two places nearest to the
\* exact value of a, in hundredths
float_round2(a) ==
    IF a.m = 0 THEN 0
    ELSE IF a.e >= 0 THEN a.m * Pow2(a.e) * 100
    ELSE IF -a.e > 29 THEN 0
    ELSE Round(a.m * 100, Pow2(-a.e))

(***************************************************************************)
(* RiskCalculator.calculate_sharpe_ratio and get_portfolio_summary.  The   *)
(* returns are floats; risk_free_rate is given in hundredths (0.04 is 4);  *)
(* sharpe_ratio is in hundredths, the three texts formatted with .2f are   *)
(* in hundredths of a percent.                                             *)
(***************************************************************************)
\* Position.return_pct, not rounded
Position_return_pct(p) ==
    IF p.buy_price = 0 THEN FloatZero
    ELSE float_mul(float_sub(float_div(float_of_int(p.current_price),
                                       float_of_int(p.buy_price)),
                             float_of_int(1)),
                   float_of_int(100))

\* Portfolio.total_return_pct, not rounded
Portfolio_total_return_pct(ps) ==
    IF total_cost_basis(ps) = 0 THEN FloatZero
    ELSE float_mul(float_sub(float_div(float_of_int(total_value(ps)),
                                       float_of_int(total_cost_basis(ps))),
                             float_of_int(1)),
                   float_of_int(100))

\* returns = [p.return_pct / 100 for p in positions]
position_returns(ps) ==
    [i \in 1..Len(ps) |-> float_div(Position_return_pct(ps[i]), float_of_int(100))]

mean_return(returns) ==
    IF returns # <<>>
    THEN float_div(float_sum(returns), float_of_int(Len(returns)))
    ELSE FloatZero

std_dev(returns) ==
    IF Len(returns) > 1
    THEN LET mean == mean_return(returns)
             squares == [i \in 1..Len(returns) |->
                            LET dev == float_sub(returns[i], mean)
                            IN  float_mul(dev, dev)]
             variance == float_div(float_sum(squares),
                                   float_of_int(Len(returns) - 1))
         IN  float_sqrt(variance)
    ELSE FloatZero

sharpe_interpretation(sharpe) ==
    IF float_gt(sharpe, float_of_int(2)) THEN "Excellent risk-adjusted returns"
    ELSE IF float_gt(sharpe, float_of_int(1)) THEN "Good risk-adjusted returns"
    ELSE IF float_gt(sharpe, FloatZero) THEN "Positive but modest risk-adjusted returns"
    ELSE "Poor risk-adjusted returns"

calculate_sharpe_ratio_result(ps, risk_free_rate) ==
    LET rate == float_div(float_of_int(risk_free_rate), float_of_int(100))
        portfolio_return == float_div(Portfolio_total_return_pct(ps), float_of_int(100))
        sd == std_dev(position_returns(ps))
        sharpe == IF sd.m = 0 THEN FloatZero
                  ELSE float_div(float_sub(portfolio_return, rate), sd)
    IN  [kind |-> "sharpe_ratio",
         sharpe_ratio |-> float_round2(sharpe),
         portfolio_return |-> float_round2(float_mul(portfolio_return, float_of_int(100))),
         risk_free_rate |-> float_round2(float_mul(rate, float_of_int(100))),
         volatility |-> float_round2(float_mul(sd, float_of_int(100))),
         interpretation |-> sharpe_interpretation(sharpe)]

calculate_sharpe_ratio(self, risk_free_rate) ==
    /\ op' = Call("calculate_sharpe_ratio", self, <<risk_free_rate>>)
    /\ ret' = calculate_sharpe_ratio_result(portfolios[self].positions, risk_free_rate)
    /\ UNCHANGED <<agent, provider, swarm, portfolios, indicators, company_exposures, risk_assessments,
                   analysis_history>>

\* the dict of Portfolio.summary() with the key risk_metrics added:
\* calculate_var(0.95), assess_concentration_risk() and
\* calculate_sharpe_ratio() at their defaults
get_portfolio_summary_result(ps) ==
    LET summary == Portfolio_summary(ps)
        risk_metrics == [var_95 |-> calculate_var_result(ps, 950, 200),
                         concentration |-> assess_concentration_risk_result(ps),
                         sharpe_ratio |-> calculate_sharpe_ratio_result(ps, 4)]
    IN  [k \in DOMAIN summary \cup {"risk_metrics"} |->
            IF k = "risk_metrics" THEN risk_metrics ELSE summary[k]]

get_portfolio_summary(self) ==
    /\ op' = Call("get_portfolio_summary", self, <<>>)
    /\ ret' = [kind |-> "portfolio_summary",
               val |-> get_portfolio_summary_result(portfolios[self].positions)]
    /\ UNCHANGED <<agent, provider, swarm, portfolios, indicators, company_exposures, risk_assessments,
                   analysis_history>>

(***************************************************************************)
(* PortfolioRiskAgent.  A Portfolio object is named by its id in           *)
(* portfolios; a RiskCalculator holds the id of the portfolio it was built *)
(* with; agent.agent.tools is the calculator whose bound methods           *)
(* _create_agent handed to the Agent.                                      *)
(***************************************************************************)
ValueError == [kind |-> "raise", exception |-> "ValueError"]

RiskCalculator(portfolio) == [kind |-> "RiskCalculator", portfolio |-> portfolio]

\* _create_agent: the tools are the methods of self.risk_calculator as it
\* is at this moment
create_agent(risk_calculator) == [kind |-> "Agent", tools |-> risk_calculator]

\* __init__: _create_model raises ValueError when there is no API key
PortfolioRiskAgent_init(api_key) ==
    /\ op' = Call("PortfolioRiskAgent.__init__", "agent", <<api_key>>)
    /\ IF api_key
       THEN /\ portfolios' = [portfolios EXCEPT !["p1"] = Portfolio]
            /\ agent' = [kind |-> "PortfolioRiskAgent",
                         portfolio |-> "p1",
                         risk_calculator |-> RiskCalculator("p1"),
                         agent |-> create_agent(RiskCalculator("p1"))]
            /\ ret' = None
       ELSE /\ ret' = ValueError
            /\ UNCHANGED <<portfolios, agent>>
    /\ UNCHANGED <<contextVars, provider, swarm>>

\* self.portfolio.add_position(...), nothing returned
PortfolioRiskAgent_add_position(symbol, shares, buy_price, current_price) ==
    /\ portfolios' = [portfolios EXCEPT ![agent.portfolio] =
           [positions |-> Append(@.positions,
                                 Position(symbol, shares, buy_price, current_price)),
            risk_metrics |-> None]]
    /\ op' = Call("PortfolioRiskAgent.add_position", "agent",
                  <<symbol, shares, buy_price, current_price>>)
    /\ ret' = None
    /\ UNCHANGED <<contextVars, agent, provider, swarm>>

\* self.portfolio = Portfolio(); self.risk_calculator = RiskCalculator(...):
\* the new Portfolio is an object of its own, here "p2" (the "p2" of an
\* earlier clear is referred to by nothing once the two fields are
\* reassigned); self.agent is not assigned
clear_portfolio ==
    /\ portfolios' = [portfolios EXCEPT !["p2"] = Portfolio]
    /\ agent' = [agent EXCEPT !.portfolio = "p2",
                              !.risk_calculator = RiskCalculator("p2")]
    /\ op' = Call("clear_portfolio", "agent", <<>>)
    /\ ret' = None
    /\ UNCHANGED <<contextVars, provider, swarm>>

\* analyze_risk: self.agent(query), in which the Agent calls one of the
\* tools it was given, with the tool's default arguments; ret is what the
\* tool returned
analyze_risk ==
    LET self == agent.agent.tools.portfolio
    IN  \/ calculate_var(self, 950, 200)
        \/ assess_concentration_risk(self)
        \/ calculate_sharpe_ratio(self, 4)
        \/ stress_test(self, "market_crash")
        \/ get_portfolio_summary(self)

(***************************************************************************)
(* Economic models: RiskLevel, EconomicIndicator, CompanyExposure,         *)
(* RiskAssessment.  An enum member is its name; .value is RiskLevel_value  *)
(* and Sensitivity_value.  debt_to_equity and international_revenue are in *)
(* hundredths (1.95 is 195, 0.58 is 58).                                   *)
(***************************************************************************)
RiskLevel == {"LOW", "MEDIUM", "HIGH", "CRITICAL"}

RiskLevel_value(r) ==
    CASE r = "LOW" -> "low"
      [] r = "MEDIUM" -> "medium"
      [] r = "HIGH" -> "high"
      [] r = "CRITICAL" -> "critical"

Sensitivity == {"LOW", "MEDIUM", "HIGH", "POSITIVE", "NEGATIVE"}

Sensitivity_value(x) ==
    CASE x = "LOW" -> "low"
      [] x = "MEDIUM" -> "medium"
      [] x = "HIGH" -> "high"
      [] x = "POSITIVE" -> "positive"
      [] x = "NEGATIVE" -> "negative"

EconomicIndicator(name, val, unit, trend, risk) ==
    [name |-> name, value |-> val, unit |-> unit, trend |-> trend, risk |-> risk]

EconomicIndicator_to_dict(ind) ==
    [name |-> ind.name, value |-> ind.value, unit |-> ind.unit,
     trend |-> ind.trend, risk |-> RiskLevel_value(ind.risk)]

CompanyExposure(ticker, interest, inflation, volatility, debt, international) ==
    [ticker |-> ticker,
     interest_rate_sensitivity |-> interest,
     inflation_sensitivity |-> inflation,
     volatility_sensitivity |-> volatility,
     debt_to_equity |-> debt,
     international_revenue |-> international]

CompanyExposure_to_dict(e) ==
    [ticker |-> e.ticker,
     interest_rate_sensitivity |-> Sensitivity_value(e.interest_rate_sensitivity),
     inflation_sensitivity |-> Sensitivity_value(e.inflation_sensitivity),
     volatility_sensitivity |-> Sensitivity_value(e.volatility_sensitivity),
     debt_to_equity |-> e.debt_to_equity,
     international_revenue |-> e.international_revenue]

\* mutant: the debt thresholds are inclusive
risk_score_debt_inclusive(e) ==
    (IF e.interest_rate_sensitivity = "HIGH" THEN 3
     ELSE IF e.interest_rate_sensitivity = "MEDIUM" THEN 2 ELSE 0)
    + (IF e.inflation_sensitivity \in {"HIGH", "NEGATIVE"} THEN 2
       ELSE IF e.inflation_sensitivity = "MEDIUM" THEN 1 ELSE 0)
    + (IF e.volatility_sensitivity = "HIGH" THEN 2
       ELSE IF e.volatility_sensitivity = "MEDIUM" THEN 1 ELSE 0)
    + (IF e.debt_to_equity >= 200 THEN 3
       ELSE IF e.debt_to_equity >= 100 THEN 1 ELSE 0)
    + (IF e.international_revenue > 50 THEN 1 ELSE 0)

risk_score(e) ==
    (IF e.interest_rate_sensitivity = "HIGH" THEN 3
     ELSE IF e.interest_rate_sensitivity = "MEDIUM" THEN 2 ELSE 0)
    + (IF e.inflation_sensitivity \in {"HIGH", "NEGATIVE"} THEN 2
       ELSE IF e.inflation_sensitivity = "MEDIUM" THEN 1 ELSE 0)
    + (IF e.volatility_sensitivity = "HIGH" THEN 2
       ELSE IF e.volatility_sensitivity = "MEDIUM" THEN 1 ELSE 0)
    + (IF e.debt_to_equity > 200 THEN 3
       ELSE IF e.debt_to_equity > 100 THEN 1 ELSE 0)
    + (IF e.international_revenue > 50 THEN 1 ELSE 0)

\* reading the risk_score property of a CompanyExposure
call_risk_score(exposure) ==
    /\ op' = Call("risk_score", exposure.ticker, <<exposure>>)
    /\ ret' = [kind |-> "int", val |-> risk_score(exposure)]
    /\ UNCHANGED <<agent, provider, swarm, portfolios, indicators, company_exposures, risk_assessments,
                   analysis_history>>

RiskAssessment(risk_level, score, risk_factors, affected_companies, recommendations) ==
    [risk_level |-> risk_level, risk_score |-> score, risk_factors |-> risk_factors,
     affected_companies |-> affected_companies, recommendations |-> recommendations]

RiskAssessment_to_dict(a) ==
    [risk_level |-> RiskLevel_value(a.risk_level), risk_score |-> a.risk_score,
     risk_factors |-> a.risk_factors, affected_companies |-> a.affected_companies,
     recommendations |-> a.recommendations]

(***************************************************************************)
(* EconomicContext                                                         *)
(***************************************************************************)
\* mutant: an event of the type of the latest entry replaces that entry
log_event_replacing(history, event_type, data) ==
    IF history # <<>> /\ history[Len(history)].event = event_type
    THEN [history EXCEPT ![Len(history)] = [event |-> event_type, data |-> data]]
    ELSE Append(history, [event |-> event_type, data |-> data])

\* _log_event: the history with the event appended
log_event(history, event_type, data) ==
    Append(history, [event |-> event_type, data |-> data])

\* mutant: an indicator whose name is already stored is not replaced
add_indicator_keep_first(indicator) ==
    /\ indicators' =
          IF \E i \in 1..Len(indicators) : indicators[i].key = indicator.name
          THEN indicators
          ELSE DictSet(indicators, indicator.name, indicator)
    /\ analysis_history' = log_event(analysis_history, "indicator_added",
                                     EconomicIndicator_to_dict(indicator))
    /\ op' = Call("add_indicator", "context", <<indicator>>)
    /\ ret' = None
    /\ UNCHANGED <<agent, provider, swarm, portfolios, company_exposures, risk_assessments>>

add_indicator(indicator) ==
    /\ indicators' = DictSet(indicators, indicator.name, indicator)
    /\ analysis_history' = log_event(analysis_history, "indicator_added",
                                     EconomicIndicator_to_dict(indicator))
    /\ op' = Call("add_indicator", "context", <<indicator>>)
    /\ ret' = None
    /\ UNCHANGED <<agent, provider, swarm, portfolios, company_exposures, risk_assessments>>

add_company_exposure(exposure) ==
    /\ company_exposures' = DictSet(company_exposures, exposure.ticker, exposure)
    /\ analysis_history' = log_event(analysis_history, "exposure_added",
                                     CompanyExposure_to_dict(exposure))
    /\ op' = Call("add_company_exposure", "context", <<exposure>>)
    /\ ret' = None
    /\ UNCHANGED <<agent, provider, swarm, portfolios, indicators, risk_assessments>>

add_risk_assessment(assessment) ==
    /\ risk_assessments' = Append(risk_assessments, assessment)
    /\ analysis_history' = log_event(analysis_history, "risk_assessed",
                                     RiskAssessment_to_dict(assessment))
    /\ op' = Call("add_risk_assessment", "context", <<assessment>>)
    /\ ret' = None
    /\ UNCHANGED <<agent, provider, swarm, portfolios, indicators, company_exposures>>

\* [ind for ind in self.indicators.values() if ind.risk in [HIGH, CRITICAL]]
get_high_risk_indicators(inds) ==
    LET High(ind) == ind.risk \in {"HIGH", "CRITICAL"}
    IN  SelectSeq(DictValues(inds), High)

\* mutant: a risk_score of exactly 5 counts as vulnerable
get_vulnerable_companies_inclusive(exposures) ==
    LET Vulnerable(e) == risk_score(e) >= 5
        Ticker(s) == [i \in 1..Len(s) |-> s[i].ticker]
    IN  Ticker(SelectSeq(DictValues(exposures), Vulnerable))

\* the tickers, in dict order, of the exposures with risk_score > 5
get_vulnerable_companies(exposures) ==
    LET Vulnerable(e) == risk_score(e) > 5
        Ticker(s) == [i \in 1..Len(s) |-> s[i].ticker]
    IN  Ticker(SelectSeq(DictValues(exposures), Vulnerable))

\* mutant: the first assessment of the history is returned
get_latest_assessment_first(assessments) ==
    IF assessments # <<>>
    THEN [kind |-> "RiskAssessment", val |-> assessments[1]]
    ELSE None

get_latest_assessment(assessments) ==
    IF assessments # <<>>
    THEN [kind |-> "RiskAssessment", val |-> assessments[Len(assessments)]]
    ELSE None

EconomicContext_summary(inds, exposures, assessments, history) ==
    [indicators_collected |-> Len(inds),
     companies_analyzed |-> Len(exposures),
     risk_assessments |-> Len(assessments),
     high_risk_indicators |-> Len(get_high_risk_indicators(inds)),
     vulnerable_companies |-> get_vulnerable_companies(exposures),
     latest_risk_level |->
         IF get_latest_assessment(assessments) # None
         THEN RiskLevel_value(get_latest_assessment(assessments).val.risk_level)
         ELSE "None",
     events_logged |-> Len(history)]

\* The read-only queries of the EconomicContext, as calls.
\* mutant: the latest assessment is taken off the history (list.pop)
call_get_latest_assessment_pop ==
    /\ op' = Call("get_latest_assessment", "context", <<>>)
    /\ ret' = get_latest_assessment(risk_assessments)
    /\ risk_assessments' =
          IF risk_assessments = <<>> THEN risk_assessments
          ELSE SubSeq(risk_assessments, 1, Len(risk_assessments) - 1)
    /\ UNCHANGED <<agent, provider, swarm, portfolios, indicators, company_exposures, analysis_history>>

call_get_high_risk_indicators ==
    /\ op' = Call("get_high_risk_indicators", "context", <<>>)
    /\ ret' = [kind |-> "list", val |-> get_high_risk_indicators(indicators)]
    /\ UNCHANGED <<agent, provider, swarm, portfolios, indicators, company_exposures, risk_assessments,
                   analysis_history>>

call_get_vulnerable_companies ==
    /\ op' = Call("get_vulnerable_companies", "context", <<>>)
    /\ ret' = [kind |-> "list", val |-> get_vulnerable_companies(company_exposures)]
    /\ UNCHANGED <<agent, provider, swarm, portfolios, indicators, company_exposures, risk_assessments,
                   analysis_history>>

call_get_latest_assessment ==
    /\ op' = Call("get_latest_assessment", "context", <<>>)
    /\ ret' = get_latest_assessment(risk_assessments)
    /\ UNCHANGED <<agent, provider, swarm, portfolios, indicators, company_exposures, risk_assessments,
                   analysis_history>>

call_EconomicContext_summary ==
    /\ op' = Call("summary", "context", <<>>)
    /\ ret' = [kind |-> "summary",
               val |-> EconomicContext_summary(indicators, company_exposures,
                                               risk_assessments, analysis_history)]
    /\ UNCHANGED <<agent, provider, swarm, portfolios, indicators, company_exposures, risk_assessments,
                   analysis_history>>

(***************************************************************************)
(* EconomicDataProvider.calculate_risk_score.  A factor is a str, modelled *)
(* as the sequence of its characters, so that lower() and the substring    *)
(* test "marker in factor_lower" are computed as Python computes them.     *)
(***************************************************************************)
UpperCase == <<"A", "B", "C", "D", "E", "F", "G", "H", "I", "J", "K", "L", "M", "N", "O", "P", "Q", "R", "S", "T", "U", "V", "W", "X", "Y", "Z">>
LowerCase == <<"a", "b", "c", "d", "e", "f", "g", "h", "i", "j", "k", "l", "m", "n", "o", "p", "q", "r", "s", "t", "u", "v", "w", "x", "y", "z">>

\* str.lower()
lower(str) ==
    [i \in 1..Len(str) |->
        IF \E k \in 1..26 : UpperCase[k] = str[i]
        THEN LowerCase[CHOOSE k \in 1..26 : UpperCase[k] = str[i]]
        ELSE str[i]]

\* marker in str
Contains(str, marker) ==
    \E i \in 0..(Len(str) - Len(marker)) : SubSeq(str, i + 1, i + Len(marker)) = marker

str_high == <<"h", "i", "g", "h">>
str_critical == <<"c", "r", "i", "t", "i", "c", "a", "l">>
str_medium == <<"m", "e", "d", "i", "u", "m">>
str_moderate == <<"m", "o", "d", "e", "r", "a", "t", "e">>
str_low == <<"l", "o", "w">>
str_High_risk == <<"H", "i", "g", "h", " ", "r", "i", "s", "k", ":", " ">>
str_Medium_risk == <<"M", "e", "d", "i", "u", "m", " ", "r", "i", "s", "k", ":", " ">>
str_Low_risk == <<"L", "o", "w", " ", "r", "i", "s", "k", ":", " ">>

\* mutant: the markers are looked up in the factor as written
factor_points_case_sensitive(factor) ==
    LET factor_lower == factor
    IN  IF Contains(factor_lower, str_high) \/ Contains(factor_lower, str_critical)
        THEN 3
        ELSE IF Contains(factor_lower, str_medium) \/ Contains(factor_lower, str_moderate)
        THEN 2
        ELSE IF Contains(factor_lower, str_low) THEN 1
        ELSE 0

\* the points one factor adds to the score: the branch of the if/elif chain
factor_points(factor) ==
    LET factor_lower == lower(factor)
    IN  IF Contains(factor_lower, str_high) \/ Contains(factor_lower, str_critical)
        THEN 3
        ELSE IF Contains(factor_lower, str_medium) \/ Contains(factor_lower, str_moderate)
        THEN 2
        ELSE IF Contains(factor_lower, str_low) THEN 1
        ELSE 0

\* the detail a factor appends, as a sequence of at most one string
factor_details(factor) ==
    CASE factor_points(factor) = 3 -> <<str_High_risk \o factor>>
      [] factor_points(factor) = 2 -> <<str_Medium_risk \o factor>>
      [] factor_points(factor) = 1 -> <<str_Low_risk \o factor>>
      [] OTHER -> <<>>

\* the loop over the factors: score and details
RECURSIVE score_factors(_)
score_factors(factors) ==
    IF factors = <<>>
    THEN [score |-> 0, details |-> <<>>]
    ELSE LET rest == score_factors(SubSeq(factors, 1, Len(factors) - 1))
             factor == factors[Len(factors)]
         IN  [score |-> rest.score + factor_points(factor),
              details |-> rest.details \o factor_details(factor)]

score_risk_level(score) ==
    IF score > 8 THEN "CRITICAL"
    ELSE IF score > 5 THEN "HIGH"
    ELSE IF score > 3 THEN "MEDIUM"
    ELSE "LOW"

score_recommendation(score) ==
    IF score > 8 THEN "Immediate action needed - reduce exposure"
    ELSE IF score > 5 THEN "Monitor closely and consider hedging"
    ELSE IF score > 3 THEN "Monitor and prepare contingency plans"
    ELSE "Maintain current strategy"

\* mutant: an empty factor list is answered without recording an assessment
calculate_risk_score_skip_empty(factors) ==
    LET scored == score_factors(factors)
        risk_level == score_risk_level(scored.score)
        recommendation == score_recommendation(scored.score)
        affected == get_vulnerable_companies(company_exposures)
        assessment == RiskAssessment(risk_level, scored.score, scored.details,
                                     affected, <<recommendation>>)
    IN  /\ IF factors = <<>>
           THEN UNCHANGED <<risk_assessments, analysis_history>>
           ELSE /\ risk_assessments' = Append(risk_assessments, assessment)
                /\ analysis_history' = log_event(analysis_history, "risk_assessed",
                                                 RiskAssessment_to_dict(assessment))
        /\ op' = Call("calculate_risk_score", "provider", <<factors>>)
        /\ ret' = [kind |-> "risk_score",
                   score |-> scored.score,
                   level |-> RiskLevel_value(risk_level),
                   details |-> scored.details,
                   recommendation |-> recommendation,
                   affected_companies |-> affected]
        /\ UNCHANGED <<agent, provider, swarm, portfolios, indicators,
                       company_exposures>>

calculate_risk_score(factors) ==
    LET scored == score_factors(factors)
        risk_level == score_risk_level(scored.score)
        recommendation == score_recommendation(scored.score)
        affected == get_vulnerable_companies(company_exposures)
        assessment == RiskAssessment(risk_level, scored.score, scored.details,
                                     affected, <<recommendation>>)
    IN  /\ risk_assessments' = Append(risk_assessments, assessment)
        /\ analysis_history' = log_event(analysis_history, "risk_assessed",
                                         RiskAssessment_to_dict(assessment))
        /\ op' = Call("calculate_risk_score", "provider", <<factors>>)
        /\ ret' = [kind |-> "risk_score",
                   score |-> scored.score,
                   level |-> RiskLevel_value(risk_level),
                   details |-> scored.details,
                   recommendation |-> recommendation,
                   affected_companies |-> affected]
        /\ UNCHANGED <<agent, provider, swarm, portfolios, indicators, company_exposures>>

(***************************************************************************)
(* EconomicDataProvider.analyze_systemic_risk                              *)
(***************************************************************************)
\* mutant: the level thresholds are inclusive
systemic_level_inclusive(systemic_score) ==
    IF systemic_score >= 6 THEN "CRITICAL"
    ELSE IF systemic_score >= 3 THEN "ELEVATED"
    ELSE "NORMAL"

systemic_level(systemic_score) ==
    IF systemic_score > 6 THEN "CRITICAL"
    ELSE IF systemic_score > 3 THEN "ELEVATED"
    ELSE "NORMAL"

systemic_actions(systemic_score) ==
    IF systemic_score > 6
    THEN <<"Reduce overall portfolio exposure", "Implement defensive strategies",
           "Increase cash allocation">>
    ELSE IF systemic_score > 3
    THEN <<"Review and adjust positions", "Consider protective hedges",
           "Monitor daily">>
    ELSE <<"Maintain positions", "Regular monitoring", "Stay informed">>

analyze_systemic_risk_result(inds, exposures, assessments, history) ==
    LET high_risk_indicators == get_high_risk_indicators(inds)
        vulnerable_companies == get_vulnerable_companies(exposures)
        systemic_score == Len(high_risk_indicators) * 2 + Len(vulnerable_companies)
    IN  [kind |-> "systemic_risk",
         systemic_level |-> systemic_level(systemic_score),
         systemic_score |-> systemic_score,
         high_risk_indicators |->
             [i \in 1..Len(high_risk_indicators) |-> high_risk_indicators[i].name],
         vulnerable_companies |-> vulnerable_companies,
         recommended_actions |-> systemic_actions(systemic_score),
         context_summary |-> EconomicContext_summary(inds, exposures, assessments, history)]

\* mutant: the analysis is recorded in the event log
analyze_systemic_risk_logging ==
    /\ op' = Call("analyze_systemic_risk", "provider", <<>>)
    /\ ret' = analyze_systemic_risk_result(indicators, company_exposures,
                                           risk_assessments, analysis_history)
    /\ analysis_history' =
          log_event(analysis_history, "systemic_risk_analyzed",
                    [systemic_score |-> ret'.systemic_score])
    /\ UNCHANGED <<agent, provider, swarm, portfolios, indicators, company_exposures,
                   risk_assessments>>

analyze_systemic_risk ==
    /\ op' = Call("analyze_systemic_risk", "provider", <<>>)
    /\ ret' = analyze_systemic_risk_result(indicators, company_exposures,
                                           risk_assessments, analysis_history)
    /\ UNCHANGED <<agent, provider, swarm, portfolios, indicators, company_exposures, risk_assessments,
                   analysis_history>>

(***************************************************************************)
(* EconomicDataProvider: construction and the two data tools.  The names   *)
(* and tickers handed to the tools are strs, modelled as character         *)
(* sequences so that upper() is computed.  The values of the mock tables   *)
(* are in hundredths (27.96 is 2796, 1.95 is 195).  An attribute that was  *)
(* never assigned is Unset; reading it raises AttributeError.              *)
(***************************************************************************)
Unset == [kind |-> "unset"]

\* str.upper()
upper(str) ==
    [i \in 1..Len(str) |->
        IF \E k \in 1..26 : LowerCase[k] = str[i]
        THEN UpperCase[CHOOSE k \in 1..26 : LowerCase[k] = str[i]]
        ELSE str[i]]

str_GDP == <<"G", "D", "P">>
str_UNRATE == <<"U", "N", "R", "A", "T", "E">>
str_VIXCLS == <<"V", "I", "X", "C", "L", "S">>
str_DFF == <<"D", "F", "F">>
str_CPI == <<"C", "P", "I">>
str_AAPL == <<"A", "A", "P", "L">>
str_JPM == <<"J", "P", "M">>
str_XOM == <<"X", "O", "M">>

\* mutant: the federal funds rate is rated high as well
mock_indicator_data_two_high ==
    << [key |-> str_GDP,
        val |-> [value |-> 2796, unit |-> "Trillion USD", trend |-> "growing", risk |-> "low"]],
       [key |-> str_UNRATE,
        val |-> [value |-> 370, unit |-> "Percent", trend |-> "stable", risk |-> "low"]],
       [key |-> str_VIXCLS,
        val |-> [value |-> 3520, unit |-> "Index", trend |-> "elevated", risk |-> "high"]],
       [key |-> str_DFF,
        val |-> [value |-> 533, unit |-> "Percent", trend |-> "high", risk |-> "high"]],
       [key |-> str_CPI,
        val |-> [value |-> 31850, unit |-> "Index", trend |-> "rising", risk |-> "medium"]] >>

\* _init_data: self.indicator_data
mock_indicator_data ==
    << [key |-> str_GDP,
        val |-> [value |-> 2796, unit |-> "Trillion USD", trend |-> "growing", risk |-> "low"]],
       [key |-> str_UNRATE,
        val |-> [value |-> 370, unit |-> "Percent", trend |-> "stable", risk |-> "low"]],
       [key |-> str_VIXCLS,
        val |-> [value |-> 3520, unit |-> "Index", trend |-> "elevated", risk |-> "high"]],
       [key |-> str_DFF,
        val |-> [value |-> 533, unit |-> "Percent", trend |-> "high", risk |-> "medium"]],
       [key |-> str_CPI,
        val |-> [value |-> 31850, unit |-> "Index", trend |-> "rising", risk |-> "medium"]] >>

\* _init_data: self.company_data
mock_company_data ==
    << [key |-> str_AAPL,
        val |-> [interest_rate_sensitivity |-> "high", inflation_sensitivity |-> "medium",
                 volatility_sensitivity |-> "high", debt_to_equity |-> 195,
                 international_revenue |-> 58]],
       [key |-> str_JPM,
        val |-> [interest_rate_sensitivity |-> "positive", inflation_sensitivity |-> "low",
                 volatility_sensitivity |-> "medium", debt_to_equity |-> 92,
                 international_revenue |-> 23]],
       [key |-> str_XOM,
        val |-> [interest_rate_sensitivity |-> "low", inflation_sensitivity |-> "positive",
                 volatility_sensitivity |-> "medium", debt_to_equity |-> 41,
                 international_revenue |-> 65]] >>

\* the payloads returned for a name or ticker that is not in the tables
default_indicator_data ==
    [value |-> 0, unit |-> "Unknown", trend |-> "unknown", risk |-> "unknown"]

default_company_data ==
    [interest_rate_sensitivity |-> "unknown", inflation_sensitivity |-> "unknown",
     volatility_sensitivity |-> "unknown", debt_to_equity |-> 100,
     international_revenue |-> 30]

\* RiskLevel(value): the member with that value
RiskLevel_of(v) == CHOOSE r \in RiskLevel : RiskLevel_value(r) = v

\* sensitivity_map.get(value, Sensitivity.MEDIUM)
sensitivity_map_get(v) ==
    IF \E x \in Sensitivity : Sensitivity_value(x) = v
    THEN CHOOSE x \in Sensitivity : Sensitivity_value(x) = v
    ELSE "MEDIUM"

\* EconomicDataProvider.__init__(context, use_mcp): _init_mcp builds the
\* client and assigns neither table; _init_data assigns both
EconomicDataProvider(use_mcp) ==
    [kind |-> "EconomicDataProvider",
     use_mcp |-> use_mcp,
     mcp_client |-> IF use_mcp THEN [kind |-> "MCPClient"] ELSE None,
     fred_tools |-> <<>>,
     indicator_data |-> IF use_mcp THEN Unset ELSE mock_indicator_data,
     company_data |-> IF use_mcp THEN Unset ELSE mock_company_data]

EconomicDataProvider_init(use_mcp) ==
    /\ provider' = EconomicDataProvider(use_mcp)
    /\ op' = Call("__init__", "provider", <<use_mcp>>)
    /\ ret' = None
    /\ UNCHANGED <<portfolios, indicators, company_exposures, risk_assessments,
                   analysis_history, agent, swarm>>

AttributeError == [kind |-> "raise", exception |-> "AttributeError"]

\* mutant: the name is looked up as written
get_economic_indicator_case_sensitive(indicator) ==
    /\ provider.kind = "EconomicDataProvider"
    /\ op' = Call("get_economic_indicator", "provider", <<indicator>>)
    /\ IF provider.indicator_data = Unset
       THEN /\ ret' = AttributeError
            /\ UNCHANGED <<indicators, analysis_history>>
       ELSE LET name == indicator
                known == name \in DictKeys(provider.indicator_data)
                data == IF known THEN DictGet(provider.indicator_data, name)
                        ELSE default_indicator_data
                ind == EconomicIndicator(name, data.value, data.unit, data.trend,
                                         RiskLevel_of(data.risk))
            IN  /\ ret' = [kind |-> "dict", val |-> data]
                /\ IF known
                   THEN /\ indicators' = DictSet(indicators, ind.name, ind)
                        /\ analysis_history' =
                              log_event(analysis_history, "indicator_added",
                                        EconomicIndicator_to_dict(ind))
                   ELSE UNCHANGED <<indicators, analysis_history>>
    /\ UNCHANGED <<portfolios, company_exposures, risk_assessments, agent, provider,
                   swarm>>

get_economic_indicator(indicator) ==
    /\ provider.kind = "EconomicDataProvider"
    /\ op' = Call("get_economic_indicator", "provider", <<indicator>>)
    /\ IF provider.indicator_data = Unset
       THEN /\ ret' = AttributeError
            /\ UNCHANGED <<indicators, analysis_history>>
       ELSE LET name == upper(indicator)
                known == name \in DictKeys(provider.indicator_data)
                data == IF known THEN DictGet(provider.indicator_data, name)
                        ELSE default_indicator_data
                ind == EconomicIndicator(name, data.value, data.unit, data.trend,
                                         RiskLevel_of(data.risk))
            IN  /\ ret' = [kind |-> "dict", val |-> data]
                /\ IF known
                   THEN /\ indicators' = DictSet(indicators, ind.name, ind)
                        /\ analysis_history' =
                              log_event(analysis_history, "indicator_added",
                                        EconomicIndicator_to_dict(ind))
                   ELSE UNCHANGED <<indicators, analysis_history>>
    /\ UNCHANGED <<portfolios, company_exposures, risk_assessments, agent, provider,
                   swarm>>

get_company_exposure(company) ==
    /\ provider.kind = "EconomicDataProvider"
    /\ op' = Call("get_company_exposure", "provider", <<company>>)
    /\ IF provider.company_data = Unset
       THEN /\ ret' = AttributeError
            /\ UNCHANGED <<company_exposures, analysis_history>>
       ELSE LET ticker == upper(company)
                known == ticker \in DictKeys(provider.company_data)
                data == IF known THEN DictGet(provider.company_data, ticker)
                        ELSE default_company_data
                exposure ==
                    CompanyExposure(ticker,
                                    sensitivity_map_get(data.interest_rate_sensitivity),
                                    sensitivity_map_get(data.inflation_sensitivity),
                                    sensitivity_map_get(data.volatility_sensitivity),
                                    data.debt_to_equity, data.international_revenue)
            IN  /\ ret' = [kind |-> "dict", val |-> data]
                /\ IF known
                   THEN /\ company_exposures' =
                              DictSet(company_exposures, exposure.ticker, exposure)
                        /\ analysis_history' =
                              log_event(analysis_history, "exposure_added",
                                        CompanyExposure_to_dict(exposure))
                   ELSE UNCHANGED <<company_exposures, analysis_history>>
    /\ UNCHANGED <<portfolios, indicators, risk_assessments, agent, provider, swarm>>

(***************************************************************************)
(* EconomicDataProvider.get_all_tools, AgentFactory and EconomicSwarm.  A  *)
(* tool is its name; an Agent is its name and its list of tools.  The      *)
(* outcome of entering the MCP client and listing its tools is one of      *)
(* "tools" (a non-empty list), "empty" (an empty list) and "raise".  The   *)
(* timeouts are in seconds (300.0 is 300).  swarm.pc is the position of    *)
(* analyze(): "idle" outside a call, "mcp" while the swarm runs inside the *)
(* try block, "fallback" while it runs in the except block, "plain" while  *)
(* it runs in the else branch.                                             *)
(***************************************************************************)
MCPOutcomes == {"tools", "empty", "raise"}

\* what list_tools_sync() returns when the FRED server answers with tools
FredTools == <<"fred_get_series">>

list_tools_sync(outcome) == IF outcome = "tools" THEN FredTools ELSE <<>>

\* get_mcp_tools: the provider after the call; the list returned is its
\* fred_tools
get_mcp_tools(p, outcome) ==
    IF p.mcp_client # None /\ p.fred_tools = <<>>
    THEN IF outcome = "raise"
         THEN [p EXCEPT !.use_mcp = FALSE, !.fred_tools = <<>>]
         ELSE [p EXCEPT !.fred_tools = list_tools_sync(outcome)]
    ELSE p

get_all_tools_result(p, outcome) ==
    LET tools == <<"get_company_exposure", "calculate_risk_score",
                   "analyze_systemic_risk">>
        mcp_tools == get_mcp_tools(p, outcome).fred_tools
    IN  IF p.use_mcp
        THEN IF mcp_tools # <<>>
             THEN tools \o mcp_tools
             ELSE <<"get_economic_indicator">> \o tools
        ELSE <<"get_economic_indicator">> \o tools

get_all_tools(outcome) ==
    /\ provider.kind = "EconomicDataProvider"
    /\ op' = Call("get_all_tools", "provider", <<>>)
    /\ ret' = [kind |-> "list", val |-> get_all_tools_result(provider, outcome)]
    /\ provider' = IF provider.use_mcp THEN get_mcp_tools(provider, outcome)
                   ELSE provider
    /\ UNCHANGED <<portfolios, contextVars, agent, swarm>>

create_coordinator == [name |-> "coordinator", tools |-> <<>>]

create_data_collector(p) ==
    [name |-> "data_collector",
     tools |-> IF p.use_mcp /\ p.fred_tools # <<>>
               THEN p.fred_tools
               ELSE <<"get_economic_indicator">>]

create_analyst(p) ==
    [name |-> "analyst",
     tools |-> IF p.use_mcp /\ p.fred_tools # <<>>
               THEN <<"get_company_exposure">> \o p.fred_tools
               ELSE <<"get_economic_indicator", "get_company_exposure">>]

create_risk_assessor ==
    [name |-> "risk_assessor",
     tools |-> <<"calculate_risk_score", "get_company_exposure",
                 "analyze_systemic_risk">>]

create_all_agents(p) ==
    <<create_coordinator, create_data_collector(p), create_analyst(p),
      create_risk_assessor>>

\* _create_swarm with the agent factory built on the provider p
create_swarm(p, max_handoffs, max_iterations, execution_timeout, node_timeout) ==
    [kind |-> "Swarm",
     agents |-> create_all_agents(p),
     max_handoffs |-> max_handoffs,
     max_iterations |-> max_iterations,
     execution_timeout |-> execution_timeout,
     node_timeout |-> node_timeout]

\* the tools some agent of the Swarm s can call
Swarm_tools(s) ==
    UNION {{s.agents[i].tools[j] : j \in 1..Len(s.agents[i].tools)} :
              i \in 1..Len(s.agents)}

\* EconomicSwarm.__init__: _create_model raises ValueError when there is no
\* API key, and the object is never bound
EconomicSwarm_init(api_key, max_handoffs, max_iterations, execution_timeout, node_timeout, use_mcp) ==
    /\ op' = Call("EconomicSwarm.__init__", "swarm",
                  <<api_key, max_handoffs, max_iterations, execution_timeout,
                    node_timeout, use_mcp>>)
    /\ IF api_key
       THEN /\ indicators' = <<>>
            /\ company_exposures' = <<>>
            /\ risk_assessments' = <<>>
            /\ analysis_history' = <<>>
            /\ provider' = EconomicDataProvider(use_mcp)
            /\ swarm' = [kind |-> "EconomicSwarm",
                         use_mcp |-> use_mcp,
                         swarm |-> create_swarm(EconomicDataProvider(use_mcp),
                                                max_handoffs, max_iterations,
                                                execution_timeout, node_timeout),
                         pc |-> "idle"]
            /\ ret' = None
       ELSE /\ ret' = ValueError
            /\ UNCHANGED <<contextVars, provider, swarm>>
    /\ UNCHANGED <<portfolios, agent>>

\* analyze(), up to the moment self.swarm(query) starts to run
analyze(outcome) ==
    /\ swarm.pc = "idle"
    /\ op' = Call("analyze", "swarm", <<>>)
    /\ ret' = None
    /\ IF swarm.use_mcp /\ provider.mcp_client # None
       THEN IF outcome = "raise"
            THEN LET p == [provider EXCEPT !.use_mcp = FALSE]
                 IN  /\ provider' = p
                     /\ swarm' = [swarm EXCEPT
                                     !.swarm = create_swarm(p, 10, 15, 300, 60),
                                     !.pc = "fallback"]
            ELSE LET p == [provider EXCEPT !.fred_tools = list_tools_sync(outcome)]
                 IN  /\ provider' = p
                     /\ swarm' = [swarm EXCEPT
                                     !.swarm = create_swarm(p, 10, 15, 300, 60),
                                     !.pc = "mcp"]
       ELSE /\ outcome = "empty"
            /\ swarm' = [swarm EXCEPT !.pc = "plain"]
            /\ UNCHANGED provider
    /\ UNCHANGED <<portfolios, contextVars, agent>>

\* self.swarm(query) raises inside the try block: the except block
analyze_except ==
    /\ swarm.pc = "mcp"
    /\ op' = Call("analyze", "swarm", <<>>)
    /\ ret' = None
    /\ LET p == [provider EXCEPT !.use_mcp = FALSE]
       IN  /\ provider' = p
           /\ swarm' = [swarm EXCEPT !.swarm = create_swarm(p, 10, 15, 300, 60),
                                     !.pc = "fallback"]
    /\ UNCHANGED <<portfolios, contextVars, agent>>

\* self.swarm(query) raises in the except block or in the else branch:
\* analyze() raises
analyze_raise ==
    /\ swarm.pc \in {"fallback", "plain"}
    /\ op' = Call("analyze", "swarm", <<>>)
    /\ ret' = [kind |-> "raise", exception |-> "Exception"]
    /\ swarm' = [swarm EXCEPT !.pc = "idle"]
    /\ UNCHANGED <<portfolios, contextVars, agent, provider>>

\* self.swarm(query) is done: the dict analyze() returns
analyze_return ==
    /\ swarm.pc \in {"mcp", "fallback", "plain"}
    /\ op' = Call("analyze", "swarm", <<>>)
    /\ ret' = [kind |-> "dict",
               val |-> [status |-> "completed",
                        context |-> EconomicContext_summary(
                                        indicators, company_exposures,
                                        risk_assessments, analysis_history),
                        using_mcp |-> swarm.use_mcp /\ provider.fred_tools # <<>>]]
    /\ swarm' = [swarm EXCEPT !.pc = "idle"]
    /\ UNCHANGED <<portfolios, contextVars, agent, provider>>

\* a FRED tool of the MCP server, called by an agent: the context is not
\* touched
fred_get_series ==
    /\ op' = Call("fred_get_series", "mcp_client", <<>>)
    /\ ret' = [kind |-> "dict", val |-> "observations"]
    /\ UNCHANGED <<portfolios, contextVars, agent, provider, swarm>>

\* one tool call by an agent of the running swarm
Swarm_call_tool ==
    /\ swarm.pc # "idle"
    /\ \/ /\ "get_economic_indicator" \in Swarm_tools(swarm.swarm)
          /\ \E indicator \in {str_VIXCLS, str_GDP} : get_economic_indicator(indicator)
       \/ /\ "get_company_exposure" \in Swarm_tools(swarm.swarm)
          /\ \E company \in {str_AAPL} : get_company_exposure(company)
       \/ /\ "calculate_risk_score" \in Swarm_tools(swarm.swarm)
          /\ calculate_risk_score(<<str_high>>)
       \/ /\ "analyze_systemic_risk" \in Swarm_tools(swarm.swarm)
          /\ analyze_systemic_risk
       \/ /\ "fred_get_series" \in Swarm_tools(swarm.swarm)
          /\ fred_get_series

(***************************************************************************)
(* Initial state                                                           *)
(***************************************************************************)
Init ==
    /\ portfolios = [self \in PortfolioIds |-> Portfolio]
    /\ op = Call("__init__", "p1", <<>>)
    /\ ret = None
    /\ indicators = <<>>
    /\ company_exposures = <<>>
    /\ risk_assessments = <<>>
    /\ analysis_history = <<>>
    /\ agent = None
    /\ provider = None
    /\ swarm = None

(***************************************************************************)
(* Specifications                                                          *)
(***************************************************************************)
\* One portfolio under add_position / remove_position / get_position.
PortfolioNext ==
    \/ \E symbol \in Symbols, shares \in ShareCounts,
          buy_price \in BuyPrices, current_price \in CurrentPrices :
          /\ Len(portfolios["p1"].positions) < MaxPositions
          /\ add_position("p1", symbol, shares, buy_price, current_price)
    \/ \E symbol \in Symbols : remove_position("p1", symbol)
    \/ \E symbol \in Symbols : get_position("p1", symbol)

PortfolioSpec == Init /\ [][PortfolioNext]_vars

\* Two Portfolio instances, each under add_position / remove_position.
IndependenceNext ==
    \/ \E self \in PortfolioIds, symbol \in Symbols, shares \in {-1, 2},
          buy_price \in {0}, current_price \in {1} :
          /\ Len(portfolios[self].positions) < MaxPositionsEach
          /\ add_position(self, symbol, shares, buy_price, current_price)
    \/ \E self \in PortfolioIds, symbol \in Symbols : remove_position(self, symbol)

IndependenceSpec == Init /\ [][IndependenceNext]_vars

\* One portfolio of positions with positive share counts, and its
\* concentration() and diversification_score().
AnalyticsNext ==
    \/ \E symbol \in MoreSymbols, shares \in {1, 2},
          buy_price \in {2}, current_price \in CurrentPrices :
          /\ Len(portfolios["p1"].positions) < MaxPositions
          /\ add_position("p1", symbol, shares, buy_price, current_price)
    \/ \E symbol \in MoreSymbols : remove_position("p1", symbol)
    \/ call_concentration("p1")
    \/ call_diversification_score("p1")

AnalyticsSpec == Init /\ [][AnalyticsNext]_vars

\* One portfolio of single-share positions whose prices put the largest
\* weight on, just above and below the thresholds, and
\* RiskCalculator.assess_concentration_risk on it.
LadderPrices == {0, 2000, 2999, 3000, 4000, 4001}

ConcentrationRiskNext ==
    \/ \E current_price \in LadderPrices :
          /\ Len(portfolios["p1"].positions) < MaxRiskPositions
          /\ add_position("p1", "AAPL", 1, 2, current_price)
    \/ assess_concentration_risk("p1")

ConcentrationRiskSpec == Init /\ [][ConcentrationRiskNext]_vars

\* CompanyExposure objects of every sensitivity combination, with
\* debt_to_equity and international_revenue on and around the thresholds,
\* and their risk_score.
DebtRatios == {92, 100, 101, 200, 201, 250}
RevenueShares == {23, 50, 51, 60}

AllExposures ==
    { CompanyExposure("AAPL", interest, inflation, volatility, debt, international) :
        interest \in Sensitivity, inflation \in Sensitivity, volatility \in Sensitivity,
        debt \in DebtRatios, international \in RevenueShares }

ExposureScoreNext == \E exposure \in AllExposures : call_risk_score(exposure)

ExposureScoreSpec == Init /\ [][ExposureScoreNext]_vars

\* One portfolio and RiskCalculator.calculate_var on it.
VarNext ==
    \/ \E symbol \in Symbols, shares \in ShareCounts,
          buy_price \in {2}, current_price \in CurrentPrices :
          /\ Len(portfolios["p1"].positions) < MaxVarPositions
          /\ add_position("p1", symbol, shares, buy_price, current_price)
    \/ \E symbol \in Symbols : remove_position("p1", symbol)
    \/ \E confidence \in Confidences, volatility \in Volatilities :
          calculate_var("p1", confidence, volatility)

VarSpec == Init /\ [][VarNext]_vars

\* The EconomicContext under its three mutating calls.
IndicatorInputs ==
    {EconomicIndicator(name, 352, "Index", "elevated", risk) :
        name \in IndicatorNames, risk \in {"LOW", "HIGH"}}

ExposureInputs ==
    {CompanyExposure(ticker, "HIGH", "MEDIUM", "HIGH", 195, 58) : ticker \in Tickers}
    \cup
    {CompanyExposure(ticker, "POSITIVE", "LOW", "MEDIUM", 92, 23) : ticker \in Tickers}

AssessmentInputs ==
    {RiskAssessment("LOW", 0, <<>>, <<>>, <<"Maintain current strategy">>),
     RiskAssessment("HIGH", 6, <<"High risk: high volatility">>, <<"AAPL">>,
                    <<"Monitor closely and consider hedging">>)}

ContextNext ==
    /\ Len(analysis_history) < MaxEvents
    /\ \/ \E indicator \in IndicatorInputs : add_indicator(indicator)
       \/ \E exposure \in ExposureInputs : add_company_exposure(exposure)
       \/ \E assessment \in AssessmentInputs : add_risk_assessment(assessment)

ContextSpec == Init /\ [][ContextNext]_vars

\* The EconomicContext under its three add operations and its queries;
\* the indicators take every risk level that matters to the queries and the
\* exposures the risk scores 8, 5 and 1.
QueryIndicatorInputs ==
    {EconomicIndicator(name, 352, "Index", "elevated", risk) :
        name \in IndicatorNames, risk \in {"LOW", "HIGH", "CRITICAL"}}

QueryExposureInputs ==
    ExposureInputs
    \cup
    {CompanyExposure(ticker, "HIGH", "MEDIUM", "MEDIUM", 92, 23) : ticker \in Tickers}

ContextQueryNext ==
    \/ /\ Len(analysis_history) < MaxQueryEvents
       /\ \/ \E indicator \in QueryIndicatorInputs : add_indicator(indicator)
          \/ \E exposure \in QueryExposureInputs : add_company_exposure(exposure)
          \/ \E assessment \in AssessmentInputs : add_risk_assessment(assessment)
    \/ call_get_high_risk_indicators
    \/ call_get_vulnerable_companies
    \/ call_get_latest_assessment
    \/ call_EconomicContext_summary

ContextQuerySpec == Init /\ [][ContextQueryNext]_vars

\* calculate_risk_score on a fresh context, for every list of up to
\* MaxFactors factors.  The factors are "High", "CRITICAL", "Medium low",
\* "moderate", "Slow" and "calm".
FactorInputs ==
    {<<"H", "i", "g", "h">>,
     <<"C", "R", "I", "T", "I", "C", "A", "L">>,
     <<"M", "e", "d", "i", "u", "m", " ", "l", "o", "w">>,
     <<"m", "o", "d", "e", "r", "a", "t", "e">>,
     <<"S", "l", "o", "w">>,
     <<"c", "a", "l", "m">>}

FactorLists == UNION {[1..n -> FactorInputs] : n \in 0..MaxFactors}

RiskScoreNext ==
    /\ analysis_history = <<>>
    /\ \E factors \in FactorLists : calculate_risk_score(factors)

RiskScoreSpec == Init /\ [][RiskScoreNext]_vars

\* A context filled with indicators of three names and exposures of two
\* tickers, and analyze_systemic_risk on it.
SystemicIndicatorInputs ==
    {EconomicIndicator(name, 352, "Index", "elevated", risk) :
        name \in IndicatorNames \cup {"DFF"}, risk \in {"MEDIUM", "HIGH", "CRITICAL"}}

SystemicExposureInputs ==
    {CompanyExposure(ticker, "HIGH", "MEDIUM", "HIGH", 195, 58) : ticker \in Tickers}
    \cup
    {CompanyExposure(ticker, "HIGH", "MEDIUM", "MEDIUM", 92, 23) : ticker \in Tickers}

SystemicNext ==
    \/ /\ Len(analysis_history) < MaxSystemicEvents
       /\ \/ \E indicator \in SystemicIndicatorInputs : add_indicator(indicator)
          \/ \E exposure \in SystemicExposureInputs : add_company_exposure(exposure)
    \/ analyze_systemic_risk

SystemicSpec == Init /\ [][SystemicNext]_vars

\* One portfolio, with positions worth up to 100000, and
\* RiskCalculator.stress_test on it under the three scenarios of the table
\* and a name that is not in it.
ScenarioNames == {"market_crash", "recession", "inflation", "depression"}

StressNext ==
    \/ \E symbol \in Symbols, shares \in {-1, 1, 100}, current_price \in {1, 1000} :
          /\ Len(portfolios["p1"].positions) < MaxVarPositions
          /\ add_position("p1", symbol, shares, 2, current_price)
    \/ \E scenario \in ScenarioNames : stress_test("p1", scenario)

StressSpec == Init /\ [][StressNext]_vars

\* A portfolio and an EconomicContext side by side, each under its
\* mutations and its read-only queries.
IdempotenceNext ==
    \/ \E symbol \in Symbols, shares \in {1, 2} :
          /\ Len(portfolios["p1"].positions) < MaxPositionsEach
          /\ add_position("p1", symbol, shares, 2, 1)
    \/ \E symbol \in Symbols : remove_position("p1", symbol)
    \/ /\ Len(analysis_history) < MaxIdempotenceEvents
       /\ \/ \E risk \in {"LOW", "HIGH"} :
                add_indicator(EconomicIndicator("VIXCLS", 352, "Index", "elevated", risk))
          \/ \E exposure \in {e \in ExposureInputs : e.ticker = "AAPL"} :
                add_company_exposure(exposure)
          \/ \E assessment \in AssessmentInputs : add_risk_assessment(assessment)
    \/ call_Portfolio_summary("p1")
    \/ call_concentration("p1")
    \/ call_diversification_score("p1")
    \/ call_EconomicContext_summary
    \/ call_get_high_risk_indicators
    \/ call_get_vulnerable_companies
    \/ call_get_latest_assessment

IdempotenceSpec == Init /\ [][IdempotenceNext]_vars

\* A provider built on the mock data set (use_mcp=False) and its four
\* tools.  The names asked for are "gdp", "UNRATE", "VIXCLS", "Dff", "CPI"
\* and the unknown "XYZ"; the tickers "aapl", "JPM", "XOM" and the unknown
\* "TSLA"; the factor lists the empty one, "High" and "High", "CRITICAL",
\* "Medium low".
IndicatorArguments ==
    {<<"g", "d", "p">>, str_UNRATE, str_VIXCLS, <<"D", "f", "f">>, str_CPI,
     <<"X", "Y", "Z">>}

CompanyArguments ==
    {<<"a", "a", "p", "l">>, str_JPM, str_XOM, <<"T", "S", "L", "A">>}

FactorArguments ==
    {<<>>,
     <<<<"H", "i", "g", "h">>>>,
     <<<<"H", "i", "g", "h">>, <<"C", "R", "I", "T", "I", "C", "A", "L">>,
       <<"M", "e", "d", "i", "u", "m", " ", "l", "o", "w">>>>}

MockProviderNext ==
    \/ /\ provider = None
       /\ EconomicDataProvider_init(FALSE)
    \/ /\ provider # None
       /\ Len(analysis_history) < MaxProviderEvents
       /\ \/ \E indicator \in IndicatorArguments : get_economic_indicator(indicator)
          \/ \E company \in CompanyArguments : get_company_exposure(company)
          \/ \E factors \in FactorArguments : calculate_risk_score(factors)
    \/ /\ provider # None
       /\ analyze_systemic_risk

MockProviderSpec == Init /\ [][MockProviderNext]_vars

\* The EconomicContext under its add operations, its queries and the tool
\* analyze_systemic_risk.
ReadOnlyNext == ContextQueryNext \/ analyze_systemic_risk

ReadOnlySpec == Init /\ [][ReadOnlyNext]_vars

\* One portfolio whose positions may have negative share counts and zero
\* prices, and its concentration() and diversification_score().
DiversificationNext ==
    \/ \E symbol \in Symbols, shares \in ShareCounts, current_price \in CurrentPrices :
          /\ Len(portfolios["p1"].positions) < MaxPositions
          /\ add_position("p1", symbol, shares, 2, current_price)
    \/ call_concentration("p1")
    \/ call_diversification_score("p1")

DiversificationSpec == Init /\ [][DiversificationNext]_vars

\* One portfolio whose positions may have a buy price of zero or a return
\* that no binary float holds exactly, under the Sharpe ratio and the summary
\* with risk metrics.
SharpeNext ==
    \/ \E shares \in {1, 2}, buy_price \in {0, 2, 3}, current_price \in {1, 5} :
          /\ Len(portfolios["p1"].positions) < MaxPositions
          /\ add_position("p1", "AAPL", shares, buy_price, current_price)
    \/ \E risk_free_rate \in {0, 4} : calculate_sharpe_ratio("p1", risk_free_rate)
    \/ get_portfolio_summary("p1")
    \/ call_concentration("p1")

SharpeSpec == Init /\ [][SharpeNext]_vars

\* A PortfolioRiskAgent: construction, add_position, clear_portfolio and
\* the tools its Agent calls.
AgentNext ==
    \/ /\ agent = None
       /\ \E api_key \in BOOLEAN : PortfolioRiskAgent_init(api_key)
    \/ /\ agent # None
       /\ \/ \E symbol \in Symbols, shares \in {1, 2} :
                /\ Len(portfolios[agent.portfolio].positions) < MaxPositionsEach
                /\ PortfolioRiskAgent_add_position(symbol, shares, 2, 1)
          \/ clear_portfolio
          \/ analyze_risk

AgentSpec == Init /\ [][AgentNext]_vars

\* An EconomicSwarm: construction, analyze() on each of its paths with the
\* tool calls of the running swarm, and get_all_tools() of its provider.
SwarmNext ==
    \/ /\ swarm = None
       /\ \E api_key \in BOOLEAN, max_handoffs \in {3, 10},
             max_iterations \in {15}, execution_timeout \in {120, 300},
             node_timeout \in {60}, use_mcp \in BOOLEAN :
             EconomicSwarm_init(api_key, max_handoffs, max_iterations,
                                execution_timeout, node_timeout, use_mcp)
    \/ /\ swarm # None
       /\ \/ \E outcome \in MCPOutcomes : analyze(outcome)
          \/ analyze_except
          \/ analyze_raise
          \/ analyze_return
          \/ /\ Len(analysis_history) < MaxSwarmEvents
             /\ Swarm_call_tool
          \/ /\ swarm.pc = "idle"
             /\ \E outcome \in MCPOutcomes : get_all_tools(outcome)

SwarmSpec == Init /\ [][SwarmNext]_vars

Next ==
    \/ PortfolioNext \/ IndependenceNext \/ AnalyticsNext \/ VarNext
    \/ ContextNext \/ ConcentrationRiskNext \/ ExposureScoreNext
    \/ ContextQueryNext \/ RiskScoreNext \/ SystemicNext \/ StressNext
    \/ IdempotenceNext \/ MockProviderNext \/ ReadOnlyNext
    \/ DiversificationNext \/ SharpeNext \/ AgentNext \/ SwarmNext

Spec == Init /\ [][Next]_vars

(***************************************************************************)
(* Claims on Portfolio (PortfolioSpec)                                     *)
(***************************************************************************)
positionsOf(self) == portfolios[self].positions

KeptIndices(ps, symbol) == {i \in 1..Len(ps) : ps[i].symbol # symbol}

RemovePost(self, symbol) ==
    LET before == portfolios[self].positions
        after == portfolios'[self].positions
        kept == KeptIndices(before, symbol)
    IN  /\ \A i \in 1..Len(after) : after[i].symbol # symbol
        /\ Len(after) = Cardinality(kept)
        /\ \A k \in kept : after[Cardinality({j \in kept : j <= k})] = before[k]
        /\ ret'.kind = "bool"
        /\ ret'.val = (\E i \in 1..Len(before) : before[i].symbol = symbol)
        /\ (kept = 1..Len(before) => after = before /\ ret'.val = FALSE)

\* C6: remove_position(symbol) removes every position with that symbol, returns
\* true iff at least one was removed, keeps all other positions in their
\* original relative order, and with no match returns false and leaves the
\* sequence unchanged.
C6_RemoveAll ==
    [][\A symbol \in Symbols :
          remove_position("p1", symbol) => RemovePost("p1", symbol)]_vars

\* a remove that took something away and left two different positions behind
C6_Witness ==
    /\ op.name = "remove_position"
    /\ ret.val = TRUE
    /\ Len(positionsOf("p1")) = 2
    /\ positionsOf("p1")[1] # positionsOf("p1")[2]

GetPost(ps, symbol, result) ==
    IF \A i \in 1..Len(ps) : ps[i].symbol # symbol
    THEN result = None
    ELSE /\ result.kind = "Position"
         /\ \E i \in 1..Len(ps) :
               /\ ps[i] = result.val
               /\ ps[i].symbol = symbol
               /\ \A j \in 1..(i - 1) : ps[j].symbol # symbol

\* C8: get_position(symbol) returns the earliest-inserted position still held
\* whose symbol matches and None when none matches; right after
\* remove_position(symbol) a lookup of that symbol gives None.
C8_GetFirst ==
    /\ [](op.name = "get_position" =>
              GetPost(positionsOf(op.self), op.args[1], ret))
    /\ [][\A symbol \in Symbols :
              remove_position("p1", symbol) =>
                  get_position_result(portfolios'["p1"].positions, symbol) = None]_vars

\* a lookup among two different positions of the same symbol
C8_Witness ==
    /\ op.name = "get_position"
    /\ ret.kind = "Position"
    /\ \E i, j \in 1..Len(positionsOf("p1")) :
          /\ i < j
          /\ positionsOf("p1")[i].symbol = op.args[1]
          /\ positionsOf("p1")[j].symbol = op.args[1]
          /\ positionsOf("p1")[i] # positionsOf("p1")[j]

(***************************************************************************)
(* Claims on two Portfolio instances (IndependenceSpec)                    *)
(***************************************************************************)
AddPost(self, symbol, shares, buy_price, current_price) ==
    LET before == portfolios[self].positions
        after == portfolios'[self].positions
    IN  /\ Len(after) = Len(before) + 1
        /\ \A i \in 1..Len(before) : after[i] = before[i]
        /\ after[Len(after)].symbol = symbol
        /\ after[Len(after)].shares = shares
        /\ after[Len(after)].buy_price = buy_price
        /\ after[Len(after)].current_price = current_price
        /\ ret'.kind = "Position"
        /\ ret'.val = after[Len(after)]
        /\ \A other \in PortfolioIds \ {self} : portfolios'[other] = portfolios[other]

\* C7: add_position succeeds for any shares and prices (it has no
\* precondition), appends exactly one new Position at the end of the sequence
\* without merging it into a held position of the same symbol, returns that
\* Position, and changes no other Portfolio instance.
C7_AddAppends ==
    /\ [](\A self \in PortfolioIds, symbol \in Symbols, shares \in ShareCounts,
             buy_price \in BuyPrices, current_price \in CurrentPrices :
             ENABLED add_position(self, symbol, shares, buy_price, current_price))
    /\ [][\A self \in PortfolioIds, symbol \in Symbols, shares \in ShareCounts,
             buy_price \in BuyPrices, current_price \in CurrentPrices :
             add_position(self, symbol, shares, buy_price, current_price) =>
                 AddPost(self, symbol, shares, buy_price, current_price)]_vars

\* a second position of a symbol already held, with a negative share count,
\* added while the other portfolio holds positions
C7_Witness ==
    /\ op.name = "add_position"
    /\ op.args[2] < 0
    /\ Len(positionsOf(op.self)) = 2
    /\ positionsOf(op.self)[1].symbol = positionsOf(op.self)[2].symbol
    /\ \E other \in PortfolioIds \ {op.self} : Len(positionsOf(other)) > 0

\* C25: in every reachable state of a Portfolio the cached risk-metrics slot
\* is empty immediately after each add_position and each remove_position,
\* also after a remove that matched nothing, so no operation can return
\* metrics computed before the latest mutation.
C25_CacheInvalidated ==
    /\ []((op.name \in {"add_position", "remove_position"}) =>
            portfolios[op.self].risk_metrics = None)
    /\ [][\A self \in PortfolioIds :
             portfolios'[self].positions # portfolios[self].positions =>
                 portfolios'[self].risk_metrics = None]_vars

\* a remove_position that matched nothing, on a portfolio holding a position
C25_Witness ==
    /\ op.name = "remove_position"
    /\ ret = [kind |-> "bool", val |-> FALSE]
    /\ Len(positionsOf(op.self)) = 1
    /\ portfolios[op.self].risk_metrics = None

(***************************************************************************)
(* Claims on concentration() and diversification_score() (AnalyticsSpec)   *)
(***************************************************************************)
MaxOf(S) == CHOOSE x \in S : \A y \in S : y <= x

SeqRange(s) == {s[i] : i \in 1..Len(s)}

\* C3: for a portfolio of non-zero total value, concentration()["max"] is the
\* largest percentage in concentration()["positions"], and
\* concentration()["symbol"] is a symbol whose entry in "positions" carries
\* that percentage, also when several positions share a symbol.
C3_MaxIsLargest ==
    (op.name = "concentration" /\ total_value(positionsOf(op.self)) # 0) =>
        /\ ret.val.max = MaxOf(SeqRange(DictValues(ret.val.positions)))
        /\ ret.val.symbol \in DictKeys(ret.val.positions)
        /\ DictGet(ret.val.positions, ret.val.symbol) = ret.val.max

\* C4: for a portfolio of non-zero total value, the percentages in
\* concentration()["positions"] sum to 100 within 0.1, whatever the number of
\* positions and whether or not symbols repeat.
C4_SumsTo100 ==
    (op.name = "concentration" /\ total_value(positionsOf(op.self)) # 0) =>
        Abs(Sum(DictValues(ret.val.positions)) - 10000) <= 10

\* C5: diversification_score() is 0 for a portfolio of 0 or 1 positions and
\* exactly 100 for every portfolio of n >= 2 positions of one same non-zero
\* value.
C5_EqualWeightScores100 ==
    op.name = "diversification_score" =>
        LET ps == positionsOf(op.self)
        IN  /\ (Len(ps) <= 1 => ret.val = 0)
            /\ (/\ Len(ps) >= 2
                /\ value(ps[1]) # 0
                /\ \A i \in 1..Len(ps) : value(ps[i]) = value(ps[1]))
               => ret.val = 10000

(***************************************************************************)
(* Claims on calculate_var (VarSpec)                                       *)
(***************************************************************************)
VarOf(ps, confidence, volatility) ==
    calculate_var_result(ps, confidence, volatility).var

\* C9 as stated, read on the inputs it is about at the least (a portfolio of
\* positive total value, a non-negative volatility): var is non-decreasing in
\* volatility for a fixed confidence, and non-decreasing in confidence, over
\* all confidence values c1 <= c2, for a fixed volatility.
C9_MonotoneAllConfidences ==
    LET ps == positionsOf("p1")
    IN  total_value(ps) > 0 =>
            /\ \A c \in Confidences, v1, v2 \in Volatilities :
                  (v1 <= v2 /\ v1 >= 0) => VarOf(ps, c, v1) <= VarOf(ps, c, v2)
            /\ \A c1, c2 \in Confidences, v \in Volatilities :
                  (c1 <= c2 /\ v >= 0) => VarOf(ps, c1, v) <= VarOf(ps, c2, v)

\* C9 amended: for a portfolio of positive total value, var is non-decreasing
\* in volatility for a fixed confidence, and, for a non-negative volatility,
\* non-decreasing in confidence over the confidence values up to 0.99.
C9_MonotoneSupported ==
    LET ps == positionsOf("p1")
    IN  total_value(ps) > 0 =>
            /\ \A c \in Confidences, v1, v2 \in Volatilities :
                  v1 <= v2 => VarOf(ps, c, v1) <= VarOf(ps, c, v2)
            /\ \A c1, c2 \in Confidences, v \in Volatilities :
                  (c1 <= c2 /\ c2 <= 990 /\ v >= 0) =>
                      VarOf(ps, c1, v) <= VarOf(ps, c2, v)

\* a var computed at 0.99 that is strictly larger than the one at 0.95, and
\* than the one at half the volatility
C9_Witness ==
    /\ op.name = "calculate_var"
    /\ op.args = <<990, 200>>
    /\ total_value(positionsOf("p1")) > 0
    /\ ret.var > VarOf(positionsOf("p1"), 950, 200)
    /\ ret.var > VarOf(positionsOf("p1"), 990, 100)

\* C10: on a portfolio of non-zero total value calculate_var returns a var
\* record (never an error record) whose var is total_value * volatility * z
\* (as returned: rounded to 2 decimals), with z = 1.65 for confidence 0.95,
\* 2.33 for confidence 0.99 and 1.65 for every other confidence.
C10_VarFormula ==
    (op.name = "calculate_var" /\ total_value(positionsOf(op.self)) # 0) =>
        LET total == total_value(positionsOf(op.self))
            confidence == op.args[1]
            volatility == op.args[2]
            z == CASE confidence = 950 -> 165
                   [] confidence = 990 -> 233
                   [] OTHER -> 165
        IN  /\ ret.kind = "var"
            /\ ret.var = Round(total * volatility * z, 10000)
            /\ ret.portfolio_value = 100 * total

\* a var returned for a confidence outside the table
C10_Witness ==
    /\ op.name = "calculate_var"
    /\ op.args[1] \notin {950, 990}
    /\ ret.kind = "var"
    /\ ret.var > 0
    /\ ret.var = VarOf(positionsOf(op.self), 950, op.args[2])
    /\ ret.var # VarOf(positionsOf(op.self), 990, op.args[2])

\* C11: calculate_var on a portfolio whose total value is 0 (empty, or holding
\* only zero-valued positions) returns an error record, and the call leaves
\* the positions and the cached-metrics slot of every portfolio unchanged.
C11_ZeroValueError ==
    /\ []((op.name = "calculate_var" /\ total_value(positionsOf(op.self)) = 0) =>
              (ret.kind = "error" /\ ret.error = "Empty portfolio"))
    /\ [][\A confidence \in Confidences, volatility \in Volatilities :
              calculate_var("p1", confidence, volatility) =>
                  portfolios' = portfolios]_vars

\* an error record returned for a portfolio of two zero-valued positions
C11_Witness ==
    /\ op.name = "calculate_var"
    /\ ret.kind = "error"
    /\ Len(positionsOf(op.self)) = 2
    /\ \A i \in 1..2 : value(positionsOf(op.self)[i]) = 0

(***************************************************************************)
(* Claims on the EconomicContext (ContextSpec)                             *)
(***************************************************************************)
summaryNow ==
    EconomicContext_summary(indicators, company_exposures, risk_assessments,
                            analysis_history)

\* the step appended exactly one entry, of this type and payload, to the log
Logged(event_type, data) ==
    /\ Len(analysis_history') = Len(analysis_history) + 1
    /\ \A i \in 1..Len(analysis_history) : analysis_history'[i] = analysis_history[i]
    /\ analysis_history'[Len(analysis_history')].event = event_type
    /\ analysis_history'[Len(analysis_history')].data = data
    /\ summaryNow'.events_logged = summaryNow.events_logged + 1

\* C2: every add_indicator, add_company_exposure and add_risk_assessment call
\* appends exactly one entry to the event log, tagged indicator_added /
\* exposure_added / risk_assessed and carrying the serialized payload, so the
\* log (and summary()["events_logged"]) has one entry per call in call order;
\* no step removes, reorders or rewrites an earlier entry.
C2_EventLog ==
    [][/\ \A indicator \in IndicatorInputs :
             add_indicator(indicator) =>
                 Logged("indicator_added", EconomicIndicator_to_dict(indicator))
       /\ \A exposure \in ExposureInputs :
             add_company_exposure(exposure) =>
                 Logged("exposure_added", CompanyExposure_to_dict(exposure))
       /\ \A assessment \in AssessmentInputs :
             add_risk_assessment(assessment) =>
                 Logged("risk_assessed", RiskAssessment_to_dict(assessment))
       /\ Len(analysis_history') >= Len(analysis_history)
       /\ \A i \in 1..Len(analysis_history) :
             analysis_history'[i] = analysis_history[i]]_vars

\* add_indicator then add_company_exposure: events_logged = 2
C2_Witness ==
    /\ op.name = "add_company_exposure"
    /\ summaryNow.events_logged = 2
    /\ [i \in 1..Len(analysis_history) |-> analysis_history[i].event]
           = <<"indicator_added", "exposure_added">>
    /\ Len(indicators) = 1
    /\ Len(company_exposures) = 1

(***************************************************************************)
(* Claims on RiskCalculator.assess_concentration_risk                      *)
(* (ConcentrationRiskSpec)                                                 *)
(***************************************************************************)
ExpectedRiskLevel(m) ==
    CASE m > 4000 -> "CRITICAL"
      [] m > 3000 /\ m <= 4000 -> "HIGH"
      [] m > 2000 /\ m <= 3000 -> "MODERATE"
      [] m <= 2000 -> "LOW"

\* C12: assess_concentration_risk classifies the largest weight m, rounded to
\* two decimals, with strict thresholds: CRITICAL iff m > 40, HIGH iff
\* 30 < m <= 40, MODERATE iff 20 < m <= 30, LOW iff m <= 20; so 40.0 is HIGH,
\* 40.01 is CRITICAL, and an empty or zero-value portfolio is LOW.
C12_StrictThresholds ==
    op.name = "assess_concentration_risk" =>
        LET ps == positionsOf(op.self)
            m == concentration(ps).max
        IN  /\ ret.risk_level = ExpectedRiskLevel(m)
            /\ (m = 4000 => ret.risk_level = "HIGH")
            /\ (m = 4001 => ret.risk_level = "CRITICAL")
            /\ (total_value(ps) = 0 => ret.risk_level = "LOW")

\* a largest weight of exactly 40.0% (4000 of 10000) reported as HIGH
C12_Witness ==
    /\ op.name = "assess_concentration_risk"
    /\ total_value(positionsOf(op.self)) = 10000
    /\ concentration(positionsOf(op.self)).max = 4000
    /\ ret.risk_level = "HIGH"

(***************************************************************************)
(* Claims on CompanyExposure.risk_score (ExposureScoreSpec)                *)
(***************************************************************************)
InterestPoints == [x \in Sensitivity |-> CASE x = "HIGH" -> 3 [] x = "MEDIUM" -> 2 [] OTHER -> 0]
InflationPoints ==
    [x \in Sensitivity |-> CASE x \in {"HIGH", "NEGATIVE"} -> 2 [] x = "MEDIUM" -> 1 [] OTHER -> 0]
VolatilityPoints == [x \in Sensitivity |-> CASE x = "HIGH" -> 2 [] x = "MEDIUM" -> 1 [] OTHER -> 0]
DebtPoints(d) == CASE d > 200 -> 3 [] d > 100 /\ d <= 200 -> 1 [] OTHER -> 0
InternationalPoints(r) == CASE r > 50 -> 1 [] OTHER -> 0

TablePoints(e) ==
    InterestPoints[e.interest_rate_sensitivity]
    + InflationPoints[e.inflation_sensitivity]
    + VolatilityPoints[e.volatility_sensitivity]
    + DebtPoints(e.debt_to_equity)
    + InternationalPoints(e.international_revenue)

\* C13: CompanyExposure.risk_score equals the sum of the point table for
\* every combination of inputs, so it lies in 0..11, and it is 11 for
\* (HIGH, NEGATIVE, HIGH, 2.5, 0.6).
C13_PointTable ==
    op.name = "risk_score" =>
        LET e == op.args[1]
        IN  /\ ret.val = TablePoints(e)
            /\ ret.val \in 0..11
            /\ ( ( /\ e.interest_rate_sensitivity = "HIGH"
                   /\ e.inflation_sensitivity = "NEGATIVE"
                   /\ e.volatility_sensitivity = "HIGH"
                   /\ e.debt_to_equity = 250
                   /\ e.international_revenue = 60 ) => ret.val = 11 )

\* the score 11 read from (HIGH, NEGATIVE, HIGH, 2.5, 0.6)
C13_Witness ==
    /\ op.name = "risk_score"
    /\ op.args[1] = CompanyExposure("AAPL", "HIGH", "NEGATIVE", "HIGH", 250, 60)
    /\ ret.val = 11

NoDuplicates(s) == \A i, j \in 1..Len(s) : s[i] = s[j] => i = j

\* the payloads, in call order, of the logged events of one type
EventData(event_type) ==
    LET evs == SelectSeq(analysis_history, LAMBDA ev : ev.event = event_type)
    IN  [i \in 1..Len(evs) |-> evs[i].data]

\* the last element of the sequence s that satisfies Match
LastMatching(s, Match(_)) ==
    LET idx == {i \in 1..Len(s) : Match(s[i])}
    IN  s[CHOOSE i \in idx : \A j \in idx : j <= i]

\* C15: re-adding an indicator with a stored name, or an exposure with a
\* stored ticker, overwrites the entry: after any sequence of add_indicator /
\* add_company_exposure calls each map holds, per name or ticker, the most
\* recently added object, and indicators_collected / companies_analyzed are
\* the numbers of distinct names / tickers added.
C15_Overwrite ==
    LET added_indicators == EventData("indicator_added")
        added_exposures == EventData("exposure_added")
        names == {added_indicators[i].name : i \in 1..Len(added_indicators)}
        tickers == {added_exposures[i].ticker : i \in 1..Len(added_exposures)}
    IN  /\ \A i, j \in 1..Len(indicators) : indicators[i].key = indicators[j].key => i = j
        /\ DictKeys(indicators) = names
        /\ \A i \in 1..Len(indicators) :
              /\ indicators[i].val.name = indicators[i].key
              /\ EconomicIndicator_to_dict(indicators[i].val) =
                    LastMatching(added_indicators,
                                 LAMBDA d : d.name = indicators[i].key)
        /\ \A i, j \in 1..Len(company_exposures) : company_exposures[i].key = company_exposures[j].key => i = j
        /\ DictKeys(company_exposures) = tickers
        /\ \A i \in 1..Len(company_exposures) :
              /\ company_exposures[i].val.ticker = company_exposures[i].key
              /\ CompanyExposure_to_dict(company_exposures[i].val) =
                    LastMatching(added_exposures,
                                 LAMBDA d : d.ticker = company_exposures[i].key)
        /\ summaryNow.indicators_collected = Cardinality(names)
        /\ summaryNow.companies_analyzed = Cardinality(tickers)

\* an indicator added twice under one name with different risk: one entry,
\* holding the second, and fewer indicators collected than events logged
C15_Witness ==
    /\ op.name = "add_indicator"
    /\ Len(analysis_history) = 2
    /\ analysis_history[1].event = "indicator_added"
    /\ analysis_history[1].data.name = op.args[1].name
    /\ analysis_history[1].data.risk # RiskLevel_value(op.args[1].risk)
    /\ Len(indicators) = 1
    /\ indicators[1].val = op.args[1]
    /\ summaryNow.indicators_collected = 1
    /\ summaryNow.events_logged = 2

(***************************************************************************)
(* Claims on the queries of the EconomicContext (ContextQuerySpec)         *)
(***************************************************************************)
StoredIndicators == {indicators[i].val : i \in 1..Len(indicators)}
StoredExposures == {company_exposures[i].val : i \in 1..Len(company_exposures)}

\* C14: get_high_risk_indicators() returns exactly the stored indicators
\* whose risk is high or critical, and get_vulnerable_companies() exactly the
\* tickers of the stored exposures whose risk_score is strictly greater than
\* 5 (a score of exactly 5 is not vulnerable), both of the state left by the
\* most recent mutation.
C14_QueriesExact ==
    /\ op.name = "get_high_risk_indicators" =>
          /\ NoDuplicates(ret.val)
          /\ SeqRange(ret.val) =
                {ind \in StoredIndicators :
                    RiskLevel_value(ind.risk) \in {"high", "critical"}}
    /\ op.name = "get_vulnerable_companies" =>
          /\ NoDuplicates(ret.val)
          /\ SeqRange(ret.val) =
                {e.ticker : e \in {x \in StoredExposures : TablePoints(x) > 5}}
          /\ \A e \in StoredExposures :
                TablePoints(e) = 5 => \A i \in 1..Len(ret.val) : ret.val[i] # e.ticker

\* after an exposure was overwritten and another with score exactly 5 was
\* added, only the overwritten ticker is returned
C14_Witness ==
    /\ op.name = "get_vulnerable_companies"
    /\ Len(analysis_history) = 3
    /\ Len(company_exposures) = 2
    /\ \E e \in StoredExposures : TablePoints(e) = 5
    /\ Len(ret.val) = 1
    /\ \A i \in 1..3 : analysis_history[i].event = "exposure_added"
    /\ analysis_history[1].data.ticker = ret.val[1]
    /\ analysis_history[1].data.interest_rate_sensitivity = "positive"
    /\ analysis_history[2].data.ticker = ret.val[1]

AssessedEvents == SelectSeq(analysis_history, LAMBDA ev : ev.event = "risk_assessed")

\* C16: risk assessments are append-only: each add_risk_assessment makes the
\* history one longer and leaves the earlier assessments in place and in
\* order; get_latest_assessment() returns the assessment of the most recent
\* add_risk_assessment call, and None (with summary()["latest_risk_level"]
\* None) when none was added.
C16_AppendOnly ==
    /\ [](op.name = "get_latest_assessment" =>
            IF AssessedEvents = <<>>
            THEN ret = None
            ELSE /\ ret.kind = "RiskAssessment"
                 /\ ret.val = risk_assessments[Len(risk_assessments)]
                 /\ RiskAssessment_to_dict(ret.val) =
                        AssessedEvents[Len(AssessedEvents)].data)
    /\ []((op.name = "summary" /\ op.self = "context" /\ AssessedEvents = <<>>) =>
            ret.val.latest_risk_level = "None")
    /\ [][ /\ op'.name = "add_risk_assessment" =>
               /\ Len(risk_assessments') = Len(risk_assessments) + 1
               /\ SubSeq(risk_assessments', 1, Len(risk_assessments)) = risk_assessments
               /\ risk_assessments'[Len(risk_assessments')] = op'.args[1]
           /\ op'.name # "add_risk_assessment" => risk_assessments' = risk_assessments
         ]_vars

\* the second of two different assessments returned as the latest
C16_Witness ==
    /\ op.name = "get_latest_assessment"
    /\ Len(risk_assessments) = 2
    /\ risk_assessments[1] # risk_assessments[2]
    /\ ret.kind = "RiskAssessment"
    /\ ret.val = risk_assessments[2]

(***************************************************************************)
(* Claims on EconomicDataProvider.calculate_risk_score (RiskScoreSpec)     *)
(***************************************************************************)
\* some stretch of the factor reads as the marker when case is ignored
HasMarker(factor, marker) ==
    \E i \in 1..Len(factor) : \E j \in i..Len(factor) :
        lower(SubSeq(factor, i, j)) = marker

MarkerPoints(factor) ==
    LET hi == HasMarker(factor, str_high) \/ HasMarker(factor, str_critical)
        med == HasMarker(factor, str_medium) \/ HasMarker(factor, str_moderate)
        lo == HasMarker(factor, str_low)
    IN  CASE hi -> 3
          [] ~hi /\ med -> 2
          [] ~hi /\ ~med /\ lo -> 1
          [] OTHER -> 0

ExpectedScoreLevel(score) ==
    CASE score > 8 -> "critical"
      [] score > 5 /\ score <= 8 -> "high"
      [] score > 3 /\ score <= 5 -> "medium"
      [] score <= 3 -> "low"

EndsWith(str, suffix) ==
    /\ Len(str) >= Len(suffix)
    /\ SubSeq(str, Len(str) - Len(suffix) + 1, Len(str)) = suffix

\* C17: calculate_risk_score(factors) adds for each factor exactly one of 3
\* (contains "high" or "critical"), otherwise 2 ("medium" or "moderate"),
\* otherwise 1 ("low"), otherwise 0, matching case-insensitively and counting
\* only the highest marker of a factor; the level is CRITICAL iff score > 8,
\* HIGH iff 5 < score <= 8, MEDIUM iff 3 < score <= 5, LOW iff score <= 3; and
\* the details list has one entry per scoring factor, in input order.
C17_FactorScoring ==
    op.name = "calculate_risk_score" =>
        LET factors == op.args[1]
            scoring == SelectSeq(factors, LAMBDA f : MarkerPoints(f) > 0)
        IN  /\ ret.score = Sum([i \in 1..Len(factors) |-> MarkerPoints(factors[i])])
            /\ ret.level = ExpectedScoreLevel(ret.score)
            /\ Len(ret.details) = Len(scoring)
            /\ \A k \in 1..Len(scoring) : EndsWith(ret.details[k], scoring[k])

\* "Medium low", "calm", "CRITICAL": 2 + 0 + 3 = 5, MEDIUM, two details
C17_Witness ==
    /\ op.name = "calculate_risk_score"
    /\ op.args[1] = <<<<"M", "e", "d", "i", "u", "m", " ", "l", "o", "w">>,
                      <<"c", "a", "l", "m">>,
                      <<"C", "R", "I", "T", "I", "C", "A", "L">>>>
    /\ ret.score = 5
    /\ ret.level = "medium"
    /\ Len(ret.details) = 2

(***************************************************************************)
(* Claims on EconomicDataProvider.analyze_systemic_risk (SystemicSpec)     *)
(***************************************************************************)
HighRiskStored ==
    {ind \in StoredIndicators : RiskLevel_value(ind.risk) \in {"high", "critical"}}

VulnerableStored == {e \in StoredExposures : TablePoints(e) > 5}

ExpectedSystemicLevel(score) ==
    CASE score > 6 -> "CRITICAL"
      [] score > 3 /\ score <= 6 -> "ELEVATED"
      [] score <= 3 -> "NORMAL"

\* C18: analyze_systemic_risk returns systemic_score = 2 * (number of
\* high/critical indicators in the context) + (number of vulnerable
\* companies), with systemic_level CRITICAL iff score > 6, ELEVATED iff
\* 3 < score <= 6, NORMAL iff score <= 3; scores of exactly 3 and exactly 6
\* fall in the lower tier.
C18_SystemicScore ==
    op.name = "analyze_systemic_risk" =>
        /\ ret.systemic_score =
              2 * Cardinality(HighRiskStored) + Cardinality(VulnerableStored)
        /\ ret.systemic_level = ExpectedSystemicLevel(ret.systemic_score)
        /\ (ret.systemic_score = 3 => ret.systemic_level = "NORMAL")
        /\ (ret.systemic_score = 6 => ret.systemic_level = "ELEVATED")

\* two high-risk indicators and two vulnerable companies: score 6, ELEVATED
C18_Witness ==
    /\ op.name = "analyze_systemic_risk"
    /\ Cardinality(HighRiskStored) = 2
    /\ Cardinality(VulnerableStored) = 2
    /\ ret.systemic_score = 6
    /\ ret.systemic_level = "ELEVATED"

(***************************************************************************)
(* Claims on RiskCalculator.stress_test (StressSpec)                       *)
(***************************************************************************)
ExpectedFactor(scenario) ==
    CASE scenario = "market_crash" -> 70
      [] scenario = "recession" -> 85
      [] scenario = "inflation" -> 90
      [] OTHER -> 70

\* C19: stress_test(scenario) multiplies the total value and every
\* position's value by the same factor (0.7 market_crash, 0.85 recession,
\* 0.9 inflation, 0.7 for an unknown name, without error), with total_loss =
\* current value - stressed value; a portfolio worth 100000 under
\* market_crash gives stressed value 70000, total loss 30000 and "30.0%".
C19_StressFactor ==
    op.name = "stress_test" =>
        LET ps == positionsOf(op.self)
            scenario == op.args[1]
            f == ExpectedFactor(scenario)
        IN  /\ ret.kind = "stress_test"
            /\ ret.current_portfolio_value = 100 * total_value(ps)
            /\ 100 * ret.stressed_portfolio_value = f * ret.current_portfolio_value
            /\ ret.total_loss = ret.current_portfolio_value - ret.stressed_portfolio_value
            /\ ret.loss_percentage = 10 * (100 - f)
            /\ Len(ret.position_impacts) = Len(ps)
            /\ \A i \in 1..Len(ps) :
                  /\ ret.position_impacts[i].symbol = ps[i].symbol
                  /\ ret.position_impacts[i].current_value = 100 * value(ps[i])
                  /\ 100 * ret.position_impacts[i].stressed_value =
                        f * ret.position_impacts[i].current_value
            /\ ( (total_value(ps) = 100000 /\ scenario = "market_crash") =>
                    /\ ret.stressed_portfolio_value = 7000000
                    /\ ret.total_loss = 3000000
                    /\ ret.loss_percentage = 300 )

\* market_crash on a portfolio worth 100000: 70000, 30000, "30.0%"
C19_Witness ==
    /\ op.name = "stress_test"
    /\ op.args[1] = "market_crash"
    /\ total_value(positionsOf(op.self)) = 100000
    /\ ret.stressed_portfolio_value = 7000000
    /\ ret.total_loss = 3000000
    /\ ret.loss_percentage = 300

(***************************************************************************)
(* Claims on the read-only queries taken together (IdempotenceSpec)        *)
(***************************************************************************)
ReadOnlyQueries ==
    {"summary", "concentration", "diversification_score",
     "get_high_risk_indicators", "get_vulnerable_companies", "get_latest_assessment"}

\* what the query named by op would return if it were called again now
SecondCall ==
    CASE op.name = "summary" /\ op.self = "context" ->
           [kind |-> "summary", val |-> summaryNow]
      [] op.name = "summary" /\ op.self # "context" ->
           [kind |-> "summary", val |-> Portfolio_summary(positionsOf(op.self))]
      [] op.name = "concentration" ->
           [kind |-> "concentration", val |-> concentration(positionsOf(op.self))]
      [] op.name = "diversification_score" ->
           [kind |-> "score", val |-> diversification_score(positionsOf(op.self))]
      [] op.name = "get_high_risk_indicators" ->
           [kind |-> "list", val |-> get_high_risk_indicators(indicators)]
      [] op.name = "get_vulnerable_companies" ->
           [kind |-> "list", val |-> get_vulnerable_companies(company_exposures)]
      [] op.name = "get_latest_assessment" ->
           get_latest_assessment(risk_assessments)

\* C20: calling a read-only query (Portfolio.summary, concentration,
\* diversification_score, EconomicContext.summary, get_high_risk_indicators,
\* get_vulnerable_companies, get_latest_assessment) twice in a row, with no
\* add or remove in between, returns identical results: a query changes
\* nothing of the portfolio or the context, and the same query called again
\* on the state it left returns what it just returned.
C20_QueriesIdempotent ==
    /\ [](op.name \in ReadOnlyQueries => SecondCall = ret)
    /\ [][op'.name \in ReadOnlyQueries =>
             UNCHANGED <<portfolios, indicators, company_exposures,
                         risk_assessments, analysis_history>>]_vars

\* get_latest_assessment has returned an assessment while the portfolio
\* holds two positions and the context two assessments
C20_Witness ==
    /\ op.name = "get_latest_assessment"
    /\ ret.kind = "RiskAssessment"
    /\ Len(risk_assessments) = 2
    /\ risk_assessments[1] # risk_assessments[2]
    /\ Len(positionsOf("p1")) = 2

(***************************************************************************)
(* Claims on the provider running on the mock data set (MockProviderSpec)  *)
(***************************************************************************)
\* the keys of a table that equal the argument when case is ignored
MatchingKeys(table, argument) ==
    {k \in DictKeys(table) : lower(k) = lower(argument)}

\* the step made exactly one add to the dict d under key k, with an object
\* carrying the fields of data, and logged exactly one event of the type
OneAdd(d, dNext, k, event_type) ==
    /\ DictKeys(dNext) = DictKeys(d) \cup {k}
    /\ \A i, j \in 1..Len(dNext) : dNext[i].key = dNext[j].key => i = j
    /\ \A x \in DictKeys(d) \ {k} : DictGet(dNext, x) = DictGet(d, x)
    /\ Len(analysis_history') = Len(analysis_history) + 1
    /\ SubSeq(analysis_history', 1, Len(analysis_history)) = analysis_history
    /\ analysis_history'[Len(analysis_history')].event = event_type

\* C21: on a provider running on the mock data set, get_economic_indicator
\* and get_company_exposure never raise: for a name or ticker not in the
\* data set (compared case-insensitively) they return the default payload
\* and leave the EconomicContext unchanged; for a known one they return its
\* data and add exactly one indicator / exposure and exactly one event.
C21_MockLookups ==
    [][ /\ op'.name = "get_economic_indicator" =>
            LET keys == MatchingKeys(mock_indicator_data, op'.args[1])
            IN  /\ ret'.kind = "dict"
                /\ keys = {} =>
                      /\ ret'.val = default_indicator_data
                      /\ UNCHANGED contextVars
                /\ \A k \in keys :
                      /\ ret'.val = DictGet(mock_indicator_data, k)
                      /\ OneAdd(indicators, indicators', k, "indicator_added")
                      /\ DictGet(indicators', k).name = k
                      /\ DictGet(indicators', k).value = ret'.val.value
                      /\ RiskLevel_value(DictGet(indicators', k).risk) = ret'.val.risk
                      /\ UNCHANGED <<company_exposures, risk_assessments>>
        /\ op'.name = "get_company_exposure" =>
            LET keys == MatchingKeys(mock_company_data, op'.args[1])
            IN  /\ ret'.kind = "dict"
                /\ keys = {} =>
                      /\ ret'.val = default_company_data
                      /\ UNCHANGED contextVars
                /\ \A k \in keys :
                      /\ ret'.val = DictGet(mock_company_data, k)
                      /\ OneAdd(company_exposures, company_exposures', k,
                                "exposure_added")
                      /\ DictGet(company_exposures', k).ticker = k
                      /\ DictGet(company_exposures', k).debt_to_equity =
                            ret'.val.debt_to_equity
                      /\ UNCHANGED <<indicators, risk_assessments>>
      ]_vars

\* "gdp", asked for in lower case, is found: its data is returned and one
\* indicator and one event are added; "XYZ" before it left no trace
C21_Witness ==
    /\ op.name = "get_economic_indicator"
    /\ op.args[1] = <<"g", "d", "p">>
    /\ ret.kind = "dict"
    /\ ret.val.value = 2796
    /\ Len(indicators) = 1
    /\ indicators[1].key = str_GDP
    /\ Len(analysis_history) = 1

(***************************************************************************)
(* Claims on the read-only operations of the economic subsystem            *)
(* (ReadOnlySpec)                                                          *)
(***************************************************************************)
EconomicReadOnly ==
    {"get_high_risk_indicators", "get_vulnerable_companies", "get_latest_assessment",
     "summary", "analyze_systemic_risk"}

\* C23: get_high_risk_indicators, get_vulnerable_companies,
\* get_latest_assessment, EconomicContext.summary and the tool
\* analyze_systemic_risk leave the indicator map, the exposure map, the
\* assessment history and the event log unchanged, in whatever state they are
\* called.
C23_ReadOnlyFrame ==
    [][op'.name \in EconomicReadOnly =>
          /\ indicators' = indicators
          /\ company_exposures' = company_exposures
          /\ risk_assessments' = risk_assessments
          /\ analysis_history' = analysis_history]_vars

\* analyze_systemic_risk has run on a context holding an indicator, an
\* exposure and an assessment, logged by three events
C23_Witness ==
    /\ op.name = "analyze_systemic_risk"
    /\ Len(indicators) = 1
    /\ Len(company_exposures) = 1
    /\ Len(risk_assessments) = 1
    /\ Len(analysis_history) = 3
    /\ ret.context_summary.events_logged = 3

\* C24: every call of calculate_risk_score, for any factor list including the
\* empty one, changes the EconomicContext in exactly one way: it appends one
\* RiskAssessment (and its one risk_assessed event) whose risk_score,
\* risk_level and affected_companies are the score, level and
\* affected_companies of the returned record, affected_companies being the
\* vulnerable companies at the time of the call; indicators and exposures
\* are unchanged.
C24_OneAssessmentPerCall ==
    [][op'.name = "calculate_risk_score" =>
          LET a == risk_assessments'[Len(risk_assessments')]
              ev == analysis_history'[Len(analysis_history')]
          IN  /\ Len(risk_assessments') = Len(risk_assessments) + 1
              /\ SubSeq(risk_assessments', 1, Len(risk_assessments)) = risk_assessments
              /\ a.risk_score = ret'.score
              /\ RiskLevel_value(a.risk_level) = ret'.level
              /\ a.affected_companies = ret'.affected_companies
              /\ NoDuplicates(a.affected_companies)
              /\ SeqRange(a.affected_companies) =
                    {e.ticker : e \in {x \in StoredExposures : TablePoints(x) > 5}}
              /\ Len(analysis_history') = Len(analysis_history) + 1
              /\ SubSeq(analysis_history', 1, Len(analysis_history)) = analysis_history
              /\ ev.event = "risk_assessed"
              /\ ev.data = RiskAssessment_to_dict(a)
              /\ indicators' = indicators
              /\ company_exposures' = company_exposures]_vars

\* the empty factor list scored while AAPL is the one vulnerable company:
\* one assessment with score 0, level low and AAPL affected
C24_Witness ==
    /\ op.name = "calculate_risk_score"
    /\ op.args[1] = <<>>
    /\ ret.score = 0
    /\ ret.affected_companies = <<str_AAPL>>
    /\ Len(risk_assessments) = 1
    /\ risk_assessments[1].affected_companies = <<str_AAPL>>
    /\ risk_assessments[1].risk_level = "LOW"
    /\ Len(analysis_history) = 2

(***************************************************************************)
(* Claims on diversification_score() over all share counts                 *)
(* (DiversificationSpec)                                                   *)
(***************************************************************************)
\* s, in hundredths, is x / n rounded to two decimals: no other number of
\* hundredths is nearer to x / n
NearestHundredth(s, x, n) == 2 * Abs(s * n - x) <= n

\* C26: for every portfolio of n >= 2 positions, diversification_score() is
\* max(0, 100 - 2 * |max_concentration - 100/n|) rounded to 2 decimals, where
\* max_concentration is the "max" of concentration() (0 when the total value
\* is 0), and it lies in 0..100 for all inputs, negative share counts
\* included.
C26_ScoreFormula ==
    (op.name = "diversification_score" /\ Len(positionsOf(op.self)) >= 2) =>
        LET ps == positionsOf(op.self)
            n == Len(ps)
            m == concentration(ps).max
            x == 10000 * n - 2 * Abs(m * n - 10000)
        IN  /\ (total_value(ps) = 0 => m = 0)
            /\ IF x <= 0 THEN ret.val = 0 ELSE NearestHundredth(ret.val, x, n)
            /\ ret.val >= 0
            /\ ret.val <= 10000

\* three positions, one of them short, of non-zero total value, where the
\* largest weight is above 100% and the score is clamped to 0
C26_Witness ==
    /\ op.name = "diversification_score"
    /\ Len(positionsOf(op.self)) = 3
    /\ \E i \in 1..3 : positionsOf(op.self)[i].shares < 0
    /\ total_value(positionsOf(op.self)) # 0
    /\ concentration(positionsOf(op.self)).max > 10000
    /\ ret.val = 0

(***************************************************************************)
(* Claims on SharpeSpec                                                    *)
(***************************************************************************)
\* the positions of a list all have the same return: their price ratios
\* current_price / buy_price are equal, a buy price of zero counting as the
\* return 0
SameReturn(p, q) ==
    IF p.buy_price = 0 \/ q.buy_price = 0
    THEN (p.buy_price = 0 \/ p.current_price = p.buy_price)
         /\ (q.buy_price = 0 \/ q.current_price = q.buy_price)
    ELSE p.current_price * q.buy_price = q.current_price * p.buy_price

EqualReturns(ps) == \A i, j \in 1..Len(ps) : SameReturn(ps[i], ps[j])

\* the sharpe_ratio record is the degenerate one
DegenerateSharpe(r) ==
    /\ r.sharpe_ratio = 0
    /\ r.volatility = 0
    /\ r.interpretation = "Poor risk-adjusted returns"

\* C27: no calculator raises on degenerate input: the return of a position
\* bought at 0 is 0, the total return of a portfolio that cost nothing is 0,
\* concentration() of a portfolio that is empty or worth nothing is the
\* all-zero record,
\* calculate_sharpe_ratio() gives sharpe_ratio 0, volatility 0 and "Poor
\* risk-adjusted returns" whenever the portfolio has fewer than two positions
\* or all its positions have the same return, and get_portfolio_summary()
\* returns a record with its three risk metrics for every portfolio.
C27_DegenerateInputs ==
    LET ps == portfolios["p1"].positions
    IN  /\ (op.name = "concentration" /\ total_value(ps) = 0) =>
              ret.val = [max |-> 0, symbol |-> "None", value |-> 0, positions |-> <<>>]
        /\ (op.name = "calculate_sharpe_ratio" /\ (Len(ps) < 2 \/ EqualReturns(ps))) =>
              DegenerateSharpe(ret)
        /\ op.name = "get_portfolio_summary" =>
              /\ ret.kind = "portfolio_summary"
              /\ ret.val.position_count = Len(ps)
              /\ \A i \in 1..Len(ps) :
                    ps[i].buy_price = 0 => ret.val.positions[i].return_pct = 0
              /\ total_cost_basis(ps) = 0 => ret.val.total_return_pct = 0
              /\ (Len(ps) < 2 \/ EqualReturns(ps)) =>
                    DegenerateSharpe(ret.val.risk_metrics.sharpe_ratio)

(***************************************************************************)
(* Claims on AgentSpec                                                     *)
(***************************************************************************)
\* what a risk tool returns when it computes over the positions ps
ToolResult(name, args, ps) ==
    CASE name = "calculate_var" -> calculate_var_result(ps, args[1], args[2])
      [] name = "assess_concentration_risk" -> assess_concentration_risk_result(ps)
      [] name = "calculate_sharpe_ratio" -> calculate_sharpe_ratio_result(ps, args[1])
      [] name = "stress_test" -> stress_test_result(ps, args[1])
      [] name = "get_portfolio_summary" ->
             [kind |-> "portfolio_summary", val |-> get_portfolio_summary_result(ps)]

RiskTools == {"calculate_var", "assess_concentration_risk", "calculate_sharpe_ratio",
              "stress_test", "get_portfolio_summary"}

\* C28: a risk tool that the agent calls computes over the agent's current
\* portfolio: after clear_portfolio() and further add_position calls, over
\* exactly the positions added since the clear.
C28_ToolsSeeCurrentPortfolio ==
    (agent # None /\ op.name \in RiskTools) =>
        ret = ToolResult(op.name, op.args, portfolios[agent.portfolio].positions)

(***************************************************************************)
(* Claims on the systemic score of the mock provider (MockProviderSpec)    *)
(***************************************************************************)
\* C29: on the mock data, with the context changed by the provider's tools
\* only, the context never holds a high-risk indicator other than VIXCLS
\* nor a vulnerable company other than AAPL, and analyze_systemic_risk
\* always reports a systemic_score of at most 3 and the level NORMAL.
C29_MockSystemicNormal ==
    (provider # None /\ ~provider.use_mcp) =>
        /\ \A i \in 1..Len(get_high_risk_indicators(indicators)) :
              get_high_risk_indicators(indicators)[i].name = str_VIXCLS
        /\ Len(get_high_risk_indicators(indicators)) <= 1
        /\ \A i \in 1..Len(get_vulnerable_companies(company_exposures)) :
              get_vulnerable_companies(company_exposures)[i] = str_AAPL
        /\ Len(get_vulnerable_companies(company_exposures)) <= 1
        /\ op.name = "analyze_systemic_risk" =>
              /\ ret.systemic_score <= 3
              /\ ret.systemic_level = "NORMAL"

\* VIXCLS and AAPL are both stored and the analysis reports 3, NORMAL
C29_Witness ==
    /\ provider # None /\ ~provider.use_mcp
    /\ str_VIXCLS \in DictKeys(indicators)
    /\ str_AAPL \in DictKeys(company_exposures)
    /\ op.name = "analyze_systemic_risk"
    /\ ret.systemic_score = 3
    /\ ret.systemic_level = "NORMAL"

(***************************************************************************)
(* Claims on EconomicSwarm and the tools it offers (SwarmSpec)             *)
(***************************************************************************)
\* the tools on offer: those of the agents of the swarm, and those in the
\* list get_all_tools() has just returned
OfferedTools ==
    (IF swarm # None THEN Swarm_tools(swarm.swarm) ELSE {})
    \cup (IF op.name = "get_all_tools"
          THEN {ret.val[i] : i \in 1..Len(ret.val)} ELSE {})

\* C22: whenever get_economic_indicator or get_company_exposure is offered
\* as a tool (use_mcp=False, use_mcp=True with an MCP connection that
\* yields no tools, or use_mcp switched off by the failure handler), the
\* mock table behind it has been initialised, and a call of either tool
\* returns a payload and does not raise.
C22_MockTablesReady ==
    provider # None =>
        /\ "get_economic_indicator" \in OfferedTools =>
              provider.indicator_data # Unset
        /\ "get_company_exposure" \in OfferedTools =>
              provider.company_data # Unset
        /\ op.name \in {"get_economic_indicator", "get_company_exposure"} =>
              ret.kind = "dict"

\* the four limits a Swarm was built with
Swarm_limits(s) ==
    <<s.max_handoffs, s.max_iterations, s.execution_timeout, s.node_timeout>>

\* C30: every analyze() runs the query on a swarm that has the
\* max_handoffs, max_iterations, execution_timeout and node_timeout given to
\* the constructor, on every path: the constructor builds self.swarm with
\* its four arguments, and no step of analyze() leaves self.swarm with other
\* limits.
C30_ConstructorLimits ==
    /\ [](op.name = "EconomicSwarm.__init__" /\ swarm # None =>
             Swarm_limits(swarm.swarm) = <<op.args[2], op.args[3], op.args[4], op.args[5]>>)
    /\ [][swarm # None /\ swarm' # None =>
             Swarm_limits(swarm'.swarm) = Swarm_limits(swarm.swarm)]_vars

=============================================================================
